---- MODULE Spec2Model ----
(***************************************************************************)
(* A model of the PlantUML editor's processing-result taxonomy and of its  *)
(* producers: content validation (core/src/validation.rs), the result      *)
(* codes and response envelope (core/src/models.rs), the render client     *)
(* (core/src/client.rs), the gateway handlers (api-server/src/handlers.rs), *)
(* the storage result mapping (storageservice/src/lib.rs), the slot store  *)
(* on localStorage (storageservice/src/local.rs), the API client           *)
(* (api-client/src/http_client.rs) and the editor page (web-ui/src).       *)
(***************************************************************************)
EXTENDS Integers, Sequences, FiniteSets, TLC

VARIABLES
    vtext,      \* validation harness: the text handed to validate_plantuml_content
    vres,       \* validation harness: Pending, or the Result it returned
    taxIn,      \* taxonomy harness: the call (function and argument) to make
    taxOut,     \* taxonomy harness: Pending, or Some(the value the call returned)
    reqs,       \* gateway: per request, its position, inputs, counters and response
    store,      \* slot store: the items of localStorage, key to serialized value
    clock,      \* slot store: the Unix time chrono::Utc::now() returns
    slotOp,     \* slot store: the last operation, its arguments and what it returned
    held,       \* slot store (history): per slot 1..10, what the calls made so far
                \* say it holds: the text of the last successful save(n, _) with
                \* no delete(n) since, None after delete(n) or when the slot began
                \* absent, Preexisting for an item found at the start
    callers,    \* save button: per caller (a tab of the editor), its position, the
                \* text in its editor, the slot chosen, the events emitted and the
                \* result shown
    lastWrite,  \* save button (history): per slot, the last call that wrote or
                \* removed its item
    ui          \* editor page: the App component's state, the conversions it
                \* spawned and (history) what each of them produced

vars ==
    <<vtext, vres, taxIn, taxOut, reqs, store, clock, slotOp, held, callers,
      lastWrite, ui>>

appVars == <<callers, lastWrite, ui>>

storeVars == <<store, clock, slotOp, held>>

(***************************************************************************)
(* Option<T>                                                               *)
(***************************************************************************)
None == [tag |-> "None"]

Some(v) == [tag |-> "Some", val |-> v]

\* A harness before its call is made, and a harness that is not in use.
Pending == [tag |-> "Pending"]

Idle == [tag |-> "Idle"]

(***************************************************************************)
(* Text.  A &str is modelled as a sequence of runs, each run a character   *)
(* repeated n >= 1 times, so that texts around the 24,000 limit stay       *)
(* finite objects.  Four characters stand for the four classes that the    *)
(* code distinguishes: one or three UTF-8 bytes, White_Space or not.       *)
(***************************************************************************)
CH_SPACE == " "              \* U+0020, 1 byte, White_Space

CH_X == "x"                  \* U+0078, 1 byte

CH_HIRAGANA_A == "U+3042"    \* 3 bytes

CH_IDEO_SPACE == "U+3000"    \* ideographic space, 3 bytes, White_Space

CH_NEWLINE == "U+000A"       \* line feed, 1 byte, White_Space

CH_DOT == "."                \* U+002E, 1 byte

Chars == {CH_SPACE, CH_X, CH_HIRAGANA_A, CH_IDEO_SPACE}

\* char::is_whitespace, which str::trim uses: the Unicode White_Space property.
IsWhitespace(c) == c \in {CH_SPACE, CH_IDEO_SPACE, CH_NEWLINE}

\* char::len_utf8
Utf8Len(c) == IF c \in {CH_SPACE, CH_X, CH_NEWLINE, CH_DOT} THEN 1 ELSE 3

Run(c, n) == [c |-> c, n |-> n]

\* str::len: the length in bytes of the UTF-8 encoding.
RECURSIVE StrLen(_)
StrLen(s) ==
    IF s = <<>> THEN 0
    ELSE Head(s).n * Utf8Len(Head(s).c) + StrLen(Tail(s))

\* str::chars().count(): the length in characters.
RECURSIVE CharCount(_)
CharCount(s) == IF s = <<>> THEN 0 ELSE Head(s).n + CharCount(Tail(s))

\* str::trim_start
RECURSIVE TrimStart(_)
TrimStart(s) ==
    IF s = <<>> THEN <<>>
    ELSE IF IsWhitespace(Head(s).c) THEN TrimStart(Tail(s))
    ELSE s

\* str::trim_end
RECURSIVE TrimEnd(_)
TrimEnd(s) ==
    IF s = <<>> THEN <<>>
    ELSE IF IsWhitespace(s[Len(s)].c) THEN TrimEnd(SubSeq(s, 1, Len(s) - 1))
    ELSE s

\* str::trim
Trim(s) == TrimEnd(TrimStart(s))

\* str::is_empty
IsEmpty(s) == StrLen(s) = 0

(***************************************************************************)
(* Validation (core/src/validation.rs)                                     *)
(***************************************************************************)
MAX_CHARS == 24000

Ok(v) == [tag |-> "Ok", val |-> v]

Err(e) == [tag |-> "Err", err |-> e]

EmptyContent == [variant |-> "EmptyContent"]

ContentTooLarge(actual, max) ==
    [variant |-> "ContentTooLarge", actual |-> actual, max |-> max]

\* A plausible slip: the length check before the emptiness check, and >=.
validate_plantuml_content_lenfirst(content) ==
    IF StrLen(content) >= MAX_CHARS
    THEN Err(ContentTooLarge(StrLen(content), MAX_CHARS))
    ELSE IF IsEmpty(Trim(content)) THEN Err(EmptyContent)
    ELSE Ok("unit")

validate_plantuml_content(content) ==
    IF IsEmpty(Trim(content)) THEN Err(EmptyContent)
    ELSE IF StrLen(content) > MAX_CHARS
    THEN Err(ContentTooLarge(StrLen(content), MAX_CHARS))
    ELSE Ok("unit")

(***************************************************************************)
(* Result taxonomy (core/src/models.rs)                                    *)
(***************************************************************************)
Info == "INFO"

Warning == "WARNING"

Error == "ERROR"

StatusLevel == {Info, Warning, Error}

\* Field values of the codes: a few of each type, the boundary ones included.
U8Values == {0, 1, 10, 255}

UsizeValues == {0, MAX_CHARS, MAX_CHARS + 1}

U64Values == {0, 30000}

StringValues == {"", "test"}

OptionUsizeValues == {None, Some(42)}

\* enum ErrorCode: one record per variant, tagged by "type" as serde tags it.
ErrorCode ==
    {[type |-> "ConversionOk"], [type |-> "ExportOk"], [type |-> "ValidationEmpty"]}
    \cup [type : {"SaveSuccess", "LoadSuccess", "DeleteSuccess"}, slot_number : U8Values]
    \cup [type : {"ValidationTextLimit", "StorageInputLimit"},
          actual : UsizeValues, max : UsizeValues]
    \cup [type : {"StorageSlotLimit"}, max_slots : UsizeValues]
    \cup [type : {"StorageWriteError", "StorageReadError", "StorageDeleteError"},
          reason : StringValues]
    \cup [type : {"SizeLimit"}, actual_bytes : UsizeValues, max_bytes : UsizeValues]
    \cup [type : {"EncodingError"}, encoding : StringValues]
    \cup [type : {"ParseError"}, line : OptionUsizeValues]
    \cup [type : {"ExportError"}, format : StringValues]
    \cup [type : {"ServerError"}, message : StringValues]
    \cup [type : {"TimeoutError"}, duration_ms : U64Values]
    \cup [type : {"NetworkError"}, endpoint : StringValues]

\* A plausible slip: StorageSlotLimit left to the catch-all arm.
status_level_slotlimit(code) ==
    CASE code.type \in {"ConversionOk", "ExportOk", "SaveSuccess", "LoadSuccess",
                        "DeleteSuccess"} -> Info
      [] code.type \in {"ValidationEmpty", "ValidationTextLimit", "StorageInputLimit",
                        "SizeLimit"} -> Warning
      [] OTHER -> Error

\* ErrorCode::status_level
status_level(code) ==
    CASE code.type \in {"ConversionOk", "ExportOk", "SaveSuccess", "LoadSuccess",
                        "DeleteSuccess"} -> Info
      [] code.type \in {"ValidationEmpty", "ValidationTextLimit", "StorageInputLimit",
                        "StorageSlotLimit", "SizeLimit"} -> Warning
      [] OTHER -> Error

\* ProcessResult::new
ProcessResult_new(code) == [level |-> status_level(code), code |-> code]

\* ConvertResponse::success
ConvertResponse_success(image_data) ==
    [result |-> ProcessResult_new([type |-> "ConversionOk"]),
     image_data |-> Some(image_data)]

\* ConvertResponse::error
ConvertResponse_error(code) ==
    [result |-> ProcessResult_new(code), image_data |-> None]

\* ValidationError::to_error_code
to_error_code(e) ==
    IF e.variant = "EmptyContent" THEN [type |-> "ValidationEmpty"]
    ELSE [type |-> "ValidationTextLimit", actual |-> e.actual, max |-> e.max]

\* ValidationError::status_level
ValidationError_status_level(e) == Warning

(***************************************************************************)
(* Storage result mapping (storageservice/src/lib.rs)                      *)
(***************************************************************************)
StorageError ==
    [variant : {"InvalidSlotNumber", "SlotEmpty"}, slot : U8Values]
    \cup {[variant |-> "SlotsFull"], [variant |-> "QuotaExceeded"]}

\* storage_error_to_result; the codes are built without fields, as the source does.
storage_error_to_result(error, slot_number) ==
    CASE error.variant \in {"InvalidSlotNumber", "SlotEmpty"} ->
            [level |-> Warning, code |-> [type |-> "StorageReadError"],
             context |-> None]
      [] error.variant = "SlotsFull" ->
            [level |-> Warning, code |-> [type |-> "StorageSlotLimit"],
             context |-> None]
      [] error.variant = "QuotaExceeded" ->
            [level |-> Warning, code |-> [type |-> "StorageInputLimit"],
             context |-> Some([maxChars |-> 24000])]

\* storage_success_result
storage_success_result(code, slot_number) ==
    [level |-> Info, code |-> code, context |-> Some([slotNumber |-> slot_number])]

(***************************************************************************)
(* The texts of the validation harness: up to MaxRuns runs, with run       *)
(* lengths on both sides of the limit, in bytes and in characters.         *)
(***************************************************************************)
MaxRuns == 2

RunLens ==
    {1, 2, MAX_CHARS \div 3, (MAX_CHARS \div 3) + 1,
     MAX_CHARS - 2, MAX_CHARS - 1, MAX_CHARS, MAX_CHARS + 1}

Runs == [c : Chars, n : RunLens]

Texts == UNION {[1..k -> Runs] : k \in 0..MaxRuns}

ValInit == vtext \in Texts /\ vres = Pending

ValIdle == vtext = <<>> /\ vres = Idle

Validate ==
    /\ vres = Pending
    /\ vres' = validate_plantuml_content(vtext)
    /\ UNCHANGED <<appVars, vtext, taxIn, taxOut, reqs, storeVars>>

(***************************************************************************)
(* The calls of the taxonomy harness.                                      *)
(***************************************************************************)
Call(f, arg) == [f |-> f, arg |-> arg]

\* The codes the UI hands to storage_success_result (web-ui/src/lib.rs).
SuccessCodes ==
    [type : {"SaveSuccess", "LoadSuccess", "DeleteSuccess"}, slot_number : U8Values]

TaxCalls ==
    {Call("status_level", c) : c \in ErrorCode}
    \cup {Call("ProcessResult_new", c) : c \in ErrorCode}
    \cup {Call("storage_error_to_result", e) : e \in StorageError}
    \cup {Call("storage_success_result", c) : c \in SuccessCodes}

TaxInit == taxIn \in TaxCalls /\ taxOut = Pending

TaxIdle == taxIn = Call("none", "none") /\ taxOut = Idle

ApplyStatusLevel ==
    /\ taxOut = Pending /\ taxIn.f = "status_level"
    /\ taxOut' = Some(status_level(taxIn.arg))
    /\ UNCHANGED <<appVars, vtext, vres, taxIn, reqs, storeVars>>

ApplyProcessResultNew ==
    /\ taxOut = Pending /\ taxIn.f = "ProcessResult_new"
    /\ taxOut' = Some(ProcessResult_new(taxIn.arg))
    /\ UNCHANGED <<appVars, vtext, vres, taxIn, reqs, storeVars>>

ApplyStorageErrorToResult ==
    /\ taxOut = Pending /\ taxIn.f = "storage_error_to_result"
    /\ taxOut' = Some(storage_error_to_result(taxIn.arg, None))
    /\ UNCHANGED <<appVars, vtext, vres, taxIn, reqs, storeVars>>

ApplyStorageSuccessResult ==
    /\ taxOut = Pending /\ taxIn.f = "storage_success_result"
    /\ taxOut' = Some(storage_success_result(taxIn.arg, taxIn.arg.slot_number))
    /\ UNCHANGED <<appVars, vtext, vres, taxIn, reqs, storeVars>>

(***************************************************************************)
(* Render client (core/src/client.rs)                                      *)
(***************************************************************************)
\* Response bodies, as byte sequences: a PNG header, the start of an SVG that
\* draws a syntax error, the start of an HTML error page, and no bytes at all.
BODY_PNG == <<137, 80, 78, 71>>

BODY_SYNTAX_ERROR_SVG == <<60, 115, 118, 103, 83, 121, 110>>

BODY_ERROR_PAGE == <<60, 104, 49>>

Bodies == {BODY_PNG, BODY_SYNTAX_ERROR_SVG, BODY_ERROR_PAGE, <<>>}

Statuses == {200, 204, 404, 500}

\* StatusCode::is_success
IsSuccessStatus(status) == status >= 200 /\ status <= 299

\* What the GET can come to: the whole response read (any status), the request
\* failing before a response (send), or the body failing after the status line.
Replies ==
    [kind : {"response"}, status : Statuses, body : Bodies]
    \cup [kind : {"send_error"}, cause : {"connect", "timeout", "other"}]
    \cup [kind : {"body_error"}, status : {200}, cause : {"timeout", "other"}]

\* The Display text of a reqwest::Error, as tokens.
ReqwestErrorText(reply) ==
    IF reply.kind = "send_error"
    THEN <<"error sending request", reply.cause>>
    ELSE <<"error decoding response body", reply.cause>>

ClientError_Network(e) == [variant |-> "Network", source |-> e]

ClientError_EncodingError(s) == [variant |-> "EncodingError", detail |-> s]

\* The prefixes of the #[error] texts of ClientError, in ASCII:
\* "ネットワークエラー", "タイムアウト: PlantUMLサーバーが応答しません",
\* "PlantUMLサーバーエラー", "無効なレスポンス形式", "エンコードエラー".
MSG_NETWORK == "network-error"

MSG_TIMEOUT == "timeout: the PlantUML server does not answer"

MSG_SERVER == "PlantUML-server-error"

MSG_INVALID_RESPONSE == "invalid-response-format"

MSG_ENCODING == "encode-error"

\* impl Display for ClientError (thiserror's #[error]), as a sequence of tokens.
ClientError_to_string(e) ==
    CASE e.variant = "Network" -> <<MSG_NETWORK, ": ">> \o e.source
      [] e.variant = "Timeout" -> <<MSG_TIMEOUT>>
      [] e.variant = "ServerError" -> <<MSG_SERVER, ": ">> \o e.detail
      [] e.variant = "InvalidResponse" -> <<MSG_INVALID_RESPONSE>>
      [] e.variant = "EncodingError" -> <<MSG_ENCODING, ": ">> \o e.detail

\* str::contains, for a pattern that is one token.
Contains(s, pat) == \E i \in 1..Len(s) : s[i] = pat

\* The endpoint segment of the URL.
Endpoint(format) == IF format = "Png" THEN "png" ELSE "svg"

BASE_URL == "http://localhost:8081"

\* encode_plantuml_deflate, when it succeeds: the encoded form of the text.
Encoded(text) == [deflate_of |-> text]

\* format!("{}/{}/{}", base_url, endpoint, encoded)
Url(base_url, format, text) == <<base_url, Endpoint(format), Encoded(text)>>

DiagramImage(document_id, format, data) ==
    [document_id |-> document_id, format |-> format, data |-> data,
     dimensions |-> <<800, 600>>, result |-> "Success"]

\* A plausible slip: a body that draws a syntax error taken for a failure.
convert_after_send_sniffing(document_id, format, reply) ==
    IF reply.kind \in {"send_error", "body_error"}
    THEN Err(ClientError_Network(ReqwestErrorText(reply)))
    ELSE IF reply.body = BODY_SYNTAX_ERROR_SVG
    THEN Err([variant |-> "InvalidResponse"])
    ELSE Ok(DiagramImage(document_id, format, reply.body))

\* PlantUmlClient::convert from the send on: `send().await?`, `bytes().await?`,
\* then Ok with the body, whatever the status.
convert_after_send(document_id, format, reply) ==
    IF reply.kind = "send_error"
    THEN Err(ClientError_Network(ReqwestErrorText(reply)))
    ELSE IF reply.kind = "body_error"
    THEN Err(ClientError_Network(ReqwestErrorText(reply)))
    ELSE Ok(DiagramImage(document_id, format, reply.body))

(***************************************************************************)
(* Gateway (api-server/src/handlers.rs).  A request goes through            *)
(*   idle -> Received -> Rejected | Validated,                              *)
(*   Validated -> Failed | Rendering,   Rendering -> Succeeded | Failed.    *)
(***************************************************************************)
MaxReq == 1

Requests == 1..MaxReq

Ops == {"convert", "export"}

Formats == {"Png", "Svg"}

TEXT_EMPTY == <<>>

TEXT_BLANK == <<Run(CH_SPACE, 3)>>

TEXT_BLANK_LONG == <<Run(CH_SPACE, MAX_CHARS + 1)>>

TEXT_SMALL == <<Run(CH_X, 2)>>

TEXT_AT_LIMIT == <<Run(CH_SPACE, 1), Run(CH_X, MAX_CHARS - 1)>>

TEXT_OVER_LIMIT == <<Run(CH_X, MAX_CHARS + 1)>>

TEXT_WIDE == <<Run(CH_HIRAGANA_A, (MAX_CHARS \div 3) + 1)>>

GatewayTexts ==
    {TEXT_EMPTY, TEXT_BLANK, TEXT_BLANK_LONG, TEXT_SMALL, TEXT_AT_LIMIT,
     TEXT_OVER_LIMIT, TEXT_WIDE}

IdleRequest ==
    [pc |-> "idle", op |-> "none", text |-> <<>>, format |-> "none",
     clients |-> 0, gets |-> 0, emitted |-> 0,
     reply |-> None, render |-> None, response |-> None]

GatewayInit == reqs = [r \in Requests |-> IdleRequest]

\* ConvertRequest::validate: PlantUMLDocument::new(text).validate()
ConvertRequest_validate(text) == validate_plantuml_content(text)

\* A plausible slip: an error response that carries an empty image.
ErrorResponse_empty_image(level, code) ==
    [result |-> [level |-> level, code |-> code], image_data |-> Some(<<>>)]

\* ConvertResponse::error as the handlers call it, with the level as an argument.
ErrorResponse(level, code) ==
    [result |-> [level |-> level, code |-> code], image_data |-> None]

\* A plausible slip: the export arm written like the convert arm.
SuccessResponse_same(op, data) == ConvertResponse_success(data)

\* The Ok arms: convert answers ConvertResponse::success(image.data); export
\* overwrites the code of that response with ExportOk.
SuccessResponse(op, data) ==
    IF op = "convert" THEN ConvertResponse_success(data)
    ELSE [ConvertResponse_success(data) EXCEPT !.result.code = [type |-> "ExportOk"]]

\* A plausible slip: the failure classified by words of the transport error.
FailureResponse_by_text(op, e) ==
    ErrorResponse(Error,
        IF Contains(ClientError_to_string(e), MSG_ENCODING)
        THEN [type |-> "EncodingError"]
        ELSE IF Contains(ClientError_to_string(e), "timeout")
        THEN [type |-> "TimeoutError"]
        ELSE IF op = "convert" THEN [type |-> "ParseError"]
        ELSE [type |-> "ExportError"])

\* The Err arms: EncodingError if the error's text contains the encoding
\* prefix, else ParseError (convert) or ExportError (export).
FailureResponse(op, e) ==
    ErrorResponse(Error,
        IF Contains(ClientError_to_string(e), MSG_ENCODING)
        THEN [type |-> "EncodingError"]
        ELSE IF op = "convert" THEN [type |-> "ParseError"]
        ELSE [type |-> "ExportError"])

\* A plausible slip: the export handler's Err arm copied from convert's and
\* its code left as ParseError.
RenderResponse_copied(op, result) ==
    IF result.tag = "Ok" THEN SuccessResponse(op, result.val.data)
    ELSE FailureResponse("convert", result.err)

\* `match result` of both handlers.
RenderResponse(op, result) ==
    IF result.tag = "Ok" THEN SuccessResponse(op, result.val.data)
    ELSE FailureResponse(op, result.err)

\* The request arrives: axum hands the JSON payload to convert or export.
Receive(r) ==
    /\ reqs[r].pc = "idle"
    /\ \E op \in Ops, text \in GatewayTexts, format \in Formats :
          reqs' = [reqs EXCEPT ![r] =
                      [@ EXCEPT !.pc = "Received", !.op = op, !.text = text,
                                !.format = format]]
    /\ UNCHANGED <<appVars, vtext, vres, taxIn, taxOut, storeVars>>

\* A plausible slip: the validation result ignored.
ValidateStep_skipped(q) == [q EXCEPT !.pc = "Validated"]

\* `if let Err(e) = payload.validate() { ... return ... }`
ValidateStep(q) ==
    LET v == ConvertRequest_validate(q.text) IN
    IF v.tag = "Err"
    THEN [q EXCEPT !.pc = "Rejected", !.emitted = @ + 1,
                   !.response = Some(ErrorResponse(ValidationError_status_level(v.err),
                                                   to_error_code(v.err)))]
    ELSE [q EXCEPT !.pc = "Validated"]

ValidateRequest(r) ==
    /\ reqs[r].pc = "Received"
    /\ reqs' = [reqs EXCEPT ![r] = ValidateStep(@)]
    /\ UNCHANGED <<appVars, vtext, vres, taxIn, taxOut, storeVars>>

\* A plausible slip: a client that cannot be built ends the handler with `?`
\* and no response of its own.
StartStep_aborting(q, built, encoded) ==
    IF ~built
    THEN [q EXCEPT !.pc = "Failed", !.clients = @ + 1]
    ELSE IF ~encoded
    THEN LET res == Err(ClientError_EncodingError(<<"FromPlantumlError">>)) IN
         [q EXCEPT !.pc = "Failed", !.clients = @ + 1, !.emitted = @ + 1,
                   !.render = Some(res),
                   !.response = Some(RenderResponse(q.op, res))]
    ELSE [q EXCEPT !.pc = "Rendering", !.clients = @ + 1, !.gets = @ + 1]

\* PlantUmlClient::new, then convert_to_png / convert_to_svg up to the send:
\* built is whether the reqwest client could be built, encoded whether
\* encode_plantuml_deflate returned Ok.
StartStep(q, built, encoded) ==
    IF ~built
    THEN [q EXCEPT !.pc = "Failed", !.clients = @ + 1, !.emitted = @ + 1,
                   !.response = Some(ErrorResponse(Error, [type |-> "ServerError"]))]
    ELSE IF ~encoded
    THEN LET res == Err(ClientError_EncodingError(<<"FromPlantumlError">>)) IN
         [q EXCEPT !.pc = "Failed", !.clients = @ + 1, !.emitted = @ + 1,
                   !.render = Some(res),
                   !.response = Some(RenderResponse(q.op, res))]
    ELSE [q EXCEPT !.pc = "Rendering", !.clients = @ + 1, !.gets = @ + 1]

StartRender(r) ==
    /\ reqs[r].pc = "Validated"
    /\ \E built \in BOOLEAN, encoded \in BOOLEAN :
          reqs' = [reqs EXCEPT ![r] = StartStep(@, built, encoded)]
    /\ UNCHANGED <<appVars, vtext, vres, taxIn, taxOut, storeVars>>

\* A plausible slip: a send that failed is sent once more before answering.
ReturnStep_retrying(q, r, reply) ==
    LET res == convert_after_send(r, q.format, reply) IN
    [q EXCEPT !.pc = IF res.tag = "Ok" THEN "Succeeded" ELSE "Failed",
              !.gets = IF reply.kind = "send_error" THEN @ + 1 ELSE @,
              !.emitted = @ + 1, !.reply = Some(reply), !.render = Some(res),
              !.response = Some(RenderResponse(q.op, res))]

\* The send completes with reply: the rest of PlantUmlClient::convert, then
\* the handler's `match result`.
ReturnStep(q, r, reply) ==
    LET res == convert_after_send(r, q.format, reply) IN
    [q EXCEPT !.pc = IF res.tag = "Ok" THEN "Succeeded" ELSE "Failed",
              !.emitted = @ + 1, !.reply = Some(reply), !.render = Some(res),
              !.response = Some(RenderResponse(q.op, res))]

RenderReturn(r) ==
    /\ reqs[r].pc = "Rendering"
    /\ \E reply \in Replies : reqs' = [reqs EXCEPT ![r] = ReturnStep(@, r, reply)]
    /\ UNCHANGED <<appVars, vtext, vres, taxIn, taxOut, storeVars>>

(***************************************************************************)
(* Slot store (storageservice/src/local.rs; web-ui/src/model/storage.rs    *)
(* holds the same four functions).  localStorage is a map from keys to     *)
(* strings; gloo-storage writes a value as its JSON text and reads it back *)
(* by parsing that text.                                                   *)
(***************************************************************************)
MAX_SLOTS == 10

Slots == 1..MAX_SLOTS

\* `slot_number as u8`: the low 8 bits of the usize.
as_u8(n) == n % 256

\* StorageSlot::validate_slot_number
validate_slot_number(slot_number) ==
    IF slot_number \notin 1..MAX_SLOTS
    THEN Err([variant |-> "InvalidSlotNumber", slot |-> slot_number])
    ELSE Ok("unit")

\* StorageSlot::storage_key: format!("plantuml_slot_{}", slot_number)
storage_key(slot_number) == <<"plantuml_slot_", slot_number>>

\* The values of serde_json: null, a string (one that has the form of a UUID
\* says so), a number, an array and an object; a text that is no JSON is
\* "invalid".
JsonNull == [json |-> "null"]

JsonString(s) == [json |-> "string", value |-> s]

JsonUuid(id) == [json |-> "string", uuid |-> TRUE, value |-> id]

JsonNumber(n) == [json |-> "number", value |-> n]

JsonObject(fields) == [json |-> "object", fields |-> fields]

JsonArray(elements) == [json |-> "array", value |-> elements]

\* Deserialize of a derived struct (visit_map and visit_seq of the derive):
\* an object is read by its keys, an array by position, and the array must
\* hold exactly the fields of the struct in the order of their declaration.
StructFields(j, names) ==
    IF j.json = "object" THEN Ok(j.fields)
    ELSE IF j.json = "array" /\ Len(j.value) = Len(names)
    THEN Ok([f \in {names[i] : i \in 1..Len(names)} |->
               j.value[CHOOSE i \in 1..Len(names) : names[i] = f]])
    ELSE Err("SerdeError")

\* Whether serde reads the JSON value j as a value of the Rust type: a number
\* within the type's range for the integers (the numbers of the model are
\* below the upper ends of usize, u64 and i64), a string for String, a string
\* of the form of a UUID for Uuid, null or the inner type for an Option.
Reads(j, type) ==
    CASE type = "u8" -> j.json = "number" /\ j.value \in 0..255
      [] type \in {"usize", "u64"} -> j.json = "number" /\ j.value >= 0
      [] type = "i64" -> j.json = "number"
      [] type = "String" -> j.json = "string"
      [] type = "Uuid" -> j.json = "string" /\ "uuid" \in DOMAIN j
      [] type = "Option<String>" -> j.json \in {"null", "string"}
      [] type = "Option<usize>" ->
            j.json = "null" \/ (j.json = "number" /\ j.value >= 0)

\* serde_json's text of an Option<String>: null or the string.
option_to_json(o) ==
    IF o = None THEN JsonNull ELSE JsonString(o.val)

\* Deserialize for an Option: null is None, a value of the inner type Some.
option_from_json(j, type) ==
    IF ~Reads(j, type) THEN Err("SerdeError")
    ELSE IF j.json = "null" THEN Ok(None)
    ELSE Ok(Some(j.value))

\* serde_json::to_string of a StorageSlot: an object with the fields of the
\* struct, the document an object of its own.
to_json(slot) ==
    JsonObject([slot_number |-> JsonNumber(slot.slot_number),
                document |-> JsonObject([id |-> JsonUuid(slot.document.id),
                                         content |-> JsonString(slot.document.content),
                                         created_at |-> JsonNumber(slot.document.created_at),
                                         updated_at |-> JsonNumber(slot.document.updated_at),
                                         title |-> option_to_json(slot.document.title)]),
                saved_at |-> JsonNumber(slot.saved_at)])

\* Deserialize for PlantUMLDocument: an object with the fields of the struct
\* or an array of the five of them, each of its type; in an object the title
\* may be missing and reads as None then.
document_from_json(j) ==
    LET Visit(read) ==
            IF read.tag = "Err" THEN Err("SerdeError")
            ELSE IF ~({"id", "content", "created_at", "updated_at"} \subseteq DOMAIN read.val)
            THEN Err("SerdeError")
            ELSE IF ~(/\ Reads(read.val.id, "Uuid")
                      /\ Reads(read.val.content, "String")
                      /\ Reads(read.val.created_at, "i64")
                      /\ Reads(read.val.updated_at, "i64"))
            THEN Err("SerdeError")
            ELSE LET title == IF "title" \in DOMAIN read.val
                              THEN option_from_json(read.val.title, "Option<String>")
                              ELSE Ok(None)
                 IN  IF title.tag = "Err" THEN Err("SerdeError")
                     ELSE Ok([id |-> read.val.id.value,
                              content |-> read.val.content.value,
                              created_at |-> read.val.created_at.value,
                              updated_at |-> read.val.updated_at.value,
                              title |-> title.val])
    IN  Visit(StructFields(j, <<"id", "content", "created_at", "updated_at", "title">>))

\* serde_json::from_str::<StorageSlot>: the text must be an object with the
\* fields of the struct or an array of the three of them, each of its type,
\* and the document one that reads as a PlantUMLDocument; a key the struct
\* does not have is skipped.
from_json(raw) ==
    LET Visit(read) ==
            IF read.tag = "Err" THEN Err("SerdeError")
            ELSE IF ~({"slot_number", "document", "saved_at"} \subseteq DOMAIN read.val)
            THEN Err("SerdeError")
            ELSE IF ~(Reads(read.val.slot_number, "u8") /\ Reads(read.val.saved_at, "i64"))
            THEN Err("SerdeError")
            ELSE LET document == document_from_json(read.val.document) IN
                 IF document.tag = "Err" THEN Err("SerdeError")
                 ELSE Ok([slot_number |-> read.val.slot_number.value,
                          document |-> document.val,
                          saved_at |-> read.val.saved_at.value])
    IN  Visit(StructFields(raw, <<"slot_number", "document", "saved_at">>))

\* LocalStorage::get::<StorageSlot>: KeyNotFound for no item, else the parse.
LocalStorage_get(st, key) ==
    IF key \notin DOMAIN st THEN Err("KeyNotFound") ELSE from_json(st[key])

\* A plausible slip: a record written field by field, the document of an
\* item already there left in place.
LocalStorage_set_torn(st, key, value, accepted) ==
    IF accepted
    THEN Ok([k \in DOMAIN st \cup {key} |->
               IF k # key THEN st[k]
               ELSE IF key \in DOMAIN st /\ from_json(st[key]).tag = "Ok"
               THEN [to_json(value) EXCEPT !.fields.document =
                       StructFields(st[key], <<"slot_number", "document",
                                               "saved_at">>).val.document]
               ELSE to_json(value)])
    ELSE Err("JsError")

\* LocalStorage::set: setItem of the JSON text; the browser may refuse it
\* (quota), which is the Err.
LocalStorage_set(st, key, value, accepted) ==
    IF accepted
    THEN Ok([k \in DOMAIN st \cup {key} |-> IF k = key THEN to_json(value) ELSE st[k]])
    ELSE Err("JsError")

\* LocalStorage::delete: removeItem.
LocalStorage_delete(st, key) == [k \in DOMAIN st \ {key} |-> st[k]]

\* What a backend call comes to: its return value, the store after it, and
\* how often it read, wrote and deleted an item.
Outcome(result, st, reads, writes, deletes) ==
    [result |-> result, store |-> st, reads |-> reads, writes |-> writes,
     deletes |-> deletes]

Panic == [tag |-> "Panic"]

\* Adjacent runs of one character written as one run.
RECURSIVE Canon(_)
Canon(s) ==
    IF Len(s) < 2 THEN s
    ELSE IF s[1].c = s[2].c
    THEN Canon(<<Run(s[1].c, s[1].n + s[2].n)>> \o SubSeq(s, 3, Len(s)))
    ELSE <<s[1]>> \o Canon(Tail(s))

\* str::lines: the text split at line feeds, a last line feed ending the last
\* line and starting none.
RECURSIVE SplitLines(_, _)
SplitLines(s, cur) ==
    IF s = <<>> THEN (IF cur = <<>> THEN <<>> ELSE <<cur>>)
    ELSE IF Head(s).c = CH_NEWLINE
    THEN <<cur>> \o [i \in 1..(Head(s).n - 1) |-> <<>>] \o SplitLines(Tail(s), <<>>)
    ELSE SplitLines(Tail(s), Append(cur, Head(s)))

str_lines(s) == SplitLines(s, <<>>)

\* Iterator::take
Take(seq, k) == SubSeq(seq, 1, IF Len(seq) < k THEN Len(seq) ELSE k)

\* [&str]::join("\n")
RECURSIVE JoinLines(_)
JoinLines(lines) ==
    IF lines = <<>> THEN <<>>
    ELSE IF Len(lines) = 1 THEN lines[1]
    ELSE Canon(lines[1] \o <<Run(CH_NEWLINE, 1)>> \o JoinLines(Tail(lines)))

\* &s[..k] for k <= s.len(): the first k bytes, a panic when byte k is inside
\* a character.
RECURSIVE BytePrefix(_, _)
BytePrefix(s, k) ==
    IF k = 0 THEN Ok(<<>>)
    ELSE LET w == Utf8Len(Head(s).c) IN
         IF Head(s).n * w <= k
         THEN LET rest == BytePrefix(Tail(s), k - Head(s).n * w) IN
              IF rest = Panic THEN Panic ELSE Ok(<<Head(s)>> \o rest.val)
         ELSE IF k % w # 0 THEN Panic
         ELSE Ok(<<Run(Head(s).c, k \div w)>>)

PREVIEW_LEN == 100

LINES_IN_PREVIEW == 3

\* get_preview: the first 3 lines joined; over 100 bytes, the first 100 bytes
\* and "...".
get_preview(content) ==
    LET preview == JoinLines(Take(str_lines(content), LINES_IN_PREVIEW)) IN
    IF StrLen(preview) > PREVIEW_LEN
    THEN LET cut == BytePrefix(preview, PREVIEW_LEN) IN
         IF cut = Panic THEN Panic
         ELSE Ok(Canon(cut.val \o <<Run(CH_DOT, 3)>>))
    ELSE Ok(preview)

\* The title of a slot without one: "無題".
TITLE_UNTITLED == "untitled"

\* save_to_slot; now and saved_at are the two readings of the clock, id the
\* DocumentId drawn, accepted whether the browser takes the write.
save_to_slot(st, slot_number, text, now, saved_at, id, accepted) ==
    LET n == as_u8(slot_number)
        v == validate_slot_number(n)
    IN  IF v.tag = "Err" THEN Outcome(v, st, 0, 0, 0)
        ELSE LET document == [id |-> id, content |-> text, created_at |-> now,
                              updated_at |-> now, title |-> None]
                 slot == [slot_number |-> n, document |-> document,
                          saved_at |-> saved_at]
                 set == LocalStorage_set(st, storage_key(n), slot, accepted)
             IN  IF set.tag = "Err"
                 THEN Outcome(Err([variant |-> "QuotaExceeded"]), st, 0, 1, 0)
                 ELSE Outcome(Ok("unit"), set.val, 0, 1, 0)

\* load_from_slot: the content of the slot's record, None for any Err of get.
load_from_slot(st, slot_number) ==
    LET n == as_u8(slot_number)
        v == validate_slot_number(n)
    IN  IF v.tag = "Err" THEN Outcome(v, st, 0, 0, 0)
        ELSE LET got == LocalStorage_get(st, storage_key(n)) IN
             IF got.tag = "Ok"
             THEN Outcome(Ok(Some(got.val.document.content)), st, 1, 0, 0)
             ELSE Outcome(Ok(None), st, 1, 0, 0)

\* The entry of list_slots for a record.
SlotInfo(slot_number, slot, preview) ==
    [slot_number |-> slot_number,
     title |-> IF slot.document.title = None THEN TITLE_UNTITLED
               ELSE slot.document.title.val,
     saved_at |-> slot.saved_at,
     preview |-> preview]

\* The loop of list_slots from slot_number on, slots being the entries pushed
\* so far: what it comes to and the number of keys read when it ends.
RECURSIVE ListFrom(_, _, _)
ListFrom(st, slot_number, slots) ==
    IF slot_number > MAX_SLOTS THEN [result |-> Ok(slots), reads |-> MAX_SLOTS]
    ELSE LET got == LocalStorage_get(st, storage_key(slot_number)) IN
         IF got.tag = "Err" THEN ListFrom(st, slot_number + 1, slots)
         ELSE LET preview == get_preview(got.val.document.content) IN
              IF preview = Panic THEN [result |-> Panic, reads |-> slot_number]
              ELSE ListFrom(st, slot_number + 1,
                            Append(slots, SlotInfo(slot_number, got.val, preview.val)))

\* list_slots: the Vec it returns, or the panic of get_preview, which ends
\* the loop before the later keys are read.
list_slots(st) ==
    LET done == ListFrom(st, 1, <<>>) IN Outcome(done.result, st, done.reads, 0, 0)

\* A plausible slip: deleting a slot that holds nothing reported as SlotEmpty.
delete_slot_strict(st, slot_number) ==
    LET n == as_u8(slot_number)
        v == validate_slot_number(n)
    IN  IF v.tag = "Err" THEN Outcome(v, st, 0, 0, 0)
        ELSE IF storage_key(n) \notin DOMAIN st
        THEN Outcome(Err([variant |-> "SlotEmpty", slot |-> n]), st, 1, 0, 0)
        ELSE Outcome(Ok("unit"), LocalStorage_delete(st, storage_key(n)), 0, 0, 1)

\* delete_slot
delete_slot(st, slot_number) ==
    LET n == as_u8(slot_number)
        v == validate_slot_number(n)
    IN  IF v.tag = "Err" THEN Outcome(v, st, 0, 0, 0)
        ELSE Outcome(Ok("unit"), LocalStorage_delete(st, storage_key(n)), 0, 0, 1)

(***************************************************************************)
(* The slot store in use: save, load, delete and list called one after     *)
(* the other on a localStorage that may hold an item from before.          *)
(***************************************************************************)
MaxTime == 1

Times == 0..MaxTime

\* DocumentId::new(): a random identifier, which no operation reads.
DocIds == {"uuid"}

\* The slot numbers passed: both sides of 1..=10, and numbers over 255 whose
\* low 8 bits are inside (257) and outside (9999) the range.
SlotArgs == {0, 1, 10, 11, 257, 9999}

T_SHORT == <<Run(CH_X, 2)>>

\* 34 characters of 3 bytes: byte 100 is inside the 34th.
T_WIDE == <<Run(CH_HIRAGANA_A, 34)>>

StoreTexts == {T_SHORT, T_WIDE}

\* Items a localStorage can hold from before: a text that is no JSON, a JSON
\* object of another shape, and a record with a title.
RAW_GARBAGE == [json |-> "invalid"]

RAW_OTHER_OBJECT == JsonObject([slot_number |-> JsonNumber(1)])

TitledSlot(n) ==
    [slot_number |-> n,
     document |-> [id |-> "uuid", content |-> T_SHORT, created_at |-> 0,
                   updated_at |-> 0, title |-> Some("Diagram")],
     saved_at |-> 0]

\* A record whose slot_number is a number no u8 holds.
RAW_WIDE_NUMBER ==
    [to_json(TitledSlot(1)) EXCEPT !.fields.slot_number = JsonNumber(300)]

\* A record whose title is a number and whose saved_at is a string.
RAW_WRONG_TYPES ==
    [to_json(TitledSlot(1)) EXCEPT !.fields.document.fields.title = JsonNumber(3),
                                   !.fields.saved_at = JsonString("zero")]

\* The record of a slot written as arrays, the slot and its document both.
ArraySlot(n) ==
    JsonArray(<<JsonNumber(n),
                JsonArray(<<JsonUuid("uuid"), JsonString(T_SHORT), JsonNumber(0),
                            JsonNumber(0), JsonString("Diagram")>>),
                JsonNumber(0)>>)

\* An array-form record that ends before saved_at.
RAW_SHORT_ARRAY == JsonArray(<<JsonNumber(1), to_json(TitledSlot(1)).fields.document>>)

EmptyStore == [k \in {} |-> RAW_GARBAGE]

InitialStores ==
    {EmptyStore}
    \cup UNION {{[k \in {storage_key(n)} |-> raw] :
                    raw \in {RAW_GARBAGE, RAW_OTHER_OBJECT, RAW_WIDE_NUMBER, RAW_WRONG_TYPES,
                             RAW_SHORT_ARRAY, ArraySlot(n), to_json(TitledSlot(n))}} :
                 n \in {1, MAX_SLOTS}}

Preexisting == [tag |-> "Preexisting"]

StoreInit ==
    /\ store \in InitialStores
    /\ clock = 0
    /\ slotOp = Pending
    /\ held = [n \in Slots |->
                 IF storage_key(n) \in DOMAIN store THEN Preexisting ELSE None]

StoreIdle ==
    /\ store = EmptyStore
    /\ clock = 0
    /\ slotOp = Idle
    /\ held = [n \in Slots |-> None]

\* The record of a call: the operation, its arguments, whether the key it
\* names (after narrowing) held an item before, and its outcome.
OpRecord(op, slot_number, text, out) ==
    [op |-> op, slot |-> slot_number, text |-> text,
     was_present |-> storage_key(as_u8(slot_number)) \in DOMAIN store,
     result |-> out.result, reads |-> out.reads, writes |-> out.writes,
     deletes |-> out.deletes]

\* The clock moves on.
Tick ==
    /\ clock < MaxTime
    /\ clock' = clock + 1
    /\ UNCHANGED <<appVars, vtext, vres, taxIn, taxOut, reqs, store, slotOp, held>>

SaveSlot ==
    \E slot_number \in SlotArgs, text \in StoreTexts, id \in DocIds,
       accepted \in BOOLEAN, later \in {clock, clock + 1} \cap Times :
        LET out == save_to_slot(store, slot_number, text, clock, later, id, accepted) IN
        /\ store' = out.store
        /\ clock' = later
        /\ slotOp' = OpRecord("save", slot_number, Some(text), out)
        /\ held' = IF slot_number \in Slots /\ out.result.tag = "Ok"
                   THEN [held EXCEPT ![slot_number] = Some(text)]
                   ELSE held
        /\ UNCHANGED <<appVars, vtext, vres, taxIn, taxOut, reqs>>

LoadSlot ==
    \E slot_number \in SlotArgs :
        LET out == load_from_slot(store, slot_number) IN
        /\ store' = out.store
        /\ slotOp' = OpRecord("load", slot_number, None, out)
        /\ UNCHANGED <<appVars, vtext, vres, taxIn, taxOut, reqs, clock, held>>

DeleteSlot ==
    \E slot_number \in SlotArgs :
        LET out == delete_slot(store, slot_number) IN
        /\ store' = out.store
        /\ slotOp' = OpRecord("delete", slot_number, None, out)
        /\ held' = IF slot_number \in Slots /\ out.result.tag = "Ok"
                   THEN [held EXCEPT ![slot_number] = None]
                   ELSE held
        /\ UNCHANGED <<appVars, vtext, vres, taxIn, taxOut, reqs, clock>>

ListSlots ==
    LET out == list_slots(store) IN
    /\ store' = out.store
    /\ slotOp' = OpRecord("list", 0, None, out)
    /\ UNCHANGED <<appVars, vtext, vres, taxIn, taxOut, reqs, clock, held>>

(***************************************************************************)
(* get_preview applied to contents of up to MaxPreviewRuns runs, of one and *)
(* three byte characters and line feeds, with lengths on both sides of 100. *)
(***************************************************************************)
MaxPreviewRuns == 2

PreviewChars == {CH_X, CH_HIRAGANA_A, CH_NEWLINE}

PreviewRunLens == {1, 2, 4, 33, 34, 99, 100, 101}

PreviewRuns == [c : PreviewChars, n : PreviewRunLens]

\* The contents, each written with no two adjacent runs of one character.
PreviewTexts ==
    {t \in UNION {[1..k -> PreviewRuns] : k \in 0..MaxPreviewRuns} : Canon(t) = t}

PreviewInit == taxIn \in {Call("get_preview", t) : t \in PreviewTexts} /\ taxOut = Pending

ApplyGetPreview ==
    /\ taxOut = Pending /\ taxIn.f = "get_preview"
    /\ taxOut' = Some(get_preview(taxIn.arg))
    /\ UNCHANGED <<appVars, vtext, vres, taxIn, reqs, storeVars>>

(***************************************************************************)
(* API client (api-client/src/http_client.rs, errors.rs)                   *)
(***************************************************************************)
\* enum ApiError
ApiError_NetworkError(msg) == [variant |-> "NetworkError", msg |-> msg]

ApiError_ServerError(msg) == [variant |-> "ServerError", msg |-> msg]

ApiError_ProcessError(code) == [variant |-> "ProcessError", code |-> code]

\* ApiError::from_process_result
from_process_result(result) == ApiError_ProcessError(result.code)

\* The two fixed texts of NetworkError, in ASCII:
\* "サーバーが応答していません。...", "レスポンスの解析に失敗しました。".
MSG_NO_ANSWER == "the server does not answer"

MSG_PARSE_FAILED == "parsing the response failed"

\* format!("HTTPエラー: {}", response.status())
HttpErrorText(status) == <<"HTTP error", status>>

\* serde_json of Vec<u8>, ProcessResult and ConvertResponse; image_data is
\* left out of the object when it is None (skip_serializing_if).
JsonBytes(b) == JsonArray([i \in 1..Len(b) |-> JsonNumber(b[i])])

\* The type of each field of the variants of ErrorCode.
FieldType(f) ==
    CASE f = "slot_number" -> "u8"
      [] f \in {"actual", "max", "max_slots", "actual_bytes", "max_bytes"} -> "usize"
      [] f = "duration_ms" -> "u64"
      [] f \in {"reason", "encoding", "format", "message", "endpoint"} -> "String"
      [] f = "line" -> "Option<usize>"

\* Serialize for ErrorCode (#[serde(tag = "type")]): an object with the type
\* and the fields of the variant; the line of ParseError is a number or null.
ErrorCode_to_json(code) ==
    JsonObject([f \in DOMAIN code |->
                  IF f = "type" THEN JsonString(code.type)
                  ELSE IF f = "line"
                  THEN (IF code.line = None THEN JsonNull ELSE JsonNumber(code.line.val))
                  ELSE IF FieldType(f) = "String" THEN JsonString(code[f])
                  ELSE JsonNumber(code[f])])

\* The fields of each variant of ErrorCode, in the order of declaration.
VariantFields(type) ==
    CASE type \in {"ConversionOk", "ExportOk", "ValidationEmpty"} -> <<>>
      [] type \in {"SaveSuccess", "LoadSuccess", "DeleteSuccess"} -> <<"slot_number">>
      [] type \in {"ValidationTextLimit", "StorageInputLimit"} -> <<"actual", "max">>
      [] type = "StorageSlotLimit" -> <<"max_slots">>
      [] type \in {"StorageWriteError", "StorageReadError", "StorageDeleteError"} ->
            <<"reason">>
      [] type = "SizeLimit" -> <<"actual_bytes", "max_bytes">>
      [] type = "EncodingError" -> <<"encoding">>
      [] type = "ParseError" -> <<"line">>
      [] type = "ExportError" -> <<"format">>
      [] type = "ServerError" -> <<"message">>
      [] type = "TimeoutError" -> <<"duration_ms">>
      [] type = "NetworkError" -> <<"endpoint">>

\* The fields a variant of ErrorCode must have in an object; the line of
\* ParseError is an Option and may be missing there.
RequiredFields(type) ==
    LET Required(names) ==
            {f \in {names[i] : i \in 1..Len(names)} : FieldType(f) # "Option<usize>"}
    IN  Required(VariantFields(type))

VariantNames ==
    {"ConversionOk", "ExportOk", "SaveSuccess", "LoadSuccess", "DeleteSuccess",
     "ValidationEmpty", "ValidationTextLimit", "StorageInputLimit", "StorageSlotLimit",
     "StorageWriteError", "StorageReadError", "StorageDeleteError", "SizeLimit",
     "EncodingError", "ParseError", "ExportError", "ServerError", "TimeoutError",
     "NetworkError"}

\* The tag and the fields serde finds in the JSON of an ErrorCode: the keys of
\* an object, or an array that starts with the tag, a string naming a variant,
\* and goes on with exactly the fields of that variant in their order.
ErrorCode_fields(j) ==
    LET Visit(names) ==
            IF Len(j.value) # Len(names) + 1 THEN Err("serde_json::Error")
            ELSE Ok([f \in {names[i] : i \in 1..Len(names)} \cup {"type"} |->
                       IF f = "type" THEN j.value[1]
                       ELSE j.value[1 + CHOOSE i \in 1..Len(names) : names[i] = f]])
    IN  IF j.json = "object" THEN Ok(j.fields)
        ELSE IF j.json # "array" \/ Len(j.value) = 0 THEN Err("serde_json::Error")
        ELSE IF j.value[1].json # "string" THEN Err("serde_json::Error")
        ELSE IF j.value[1].value \notin VariantNames THEN Err("serde_json::Error")
        ELSE Visit(VariantFields(j.value[1].value))

\* Deserialize for ErrorCode: the type is a string that names a variant, and
\* the variant's fields are there, each of its type; other keys of an object
\* are skipped.
ErrorCode_from_json(j) ==
    LET Variant(type, required, fields) ==
            IF ~(required \subseteq DOMAIN fields) THEN Err("serde_json::Error")
            ELSE IF \E f \in required : ~Reads(fields[f], FieldType(f))
            THEN Err("serde_json::Error")
            ELSE IF type = "ParseError"
            THEN LET line == IF "line" \in DOMAIN fields
                             THEN option_from_json(fields.line, "Option<usize>")
                             ELSE Ok(None)
                 IN  IF line.tag = "Err" THEN Err("serde_json::Error")
                     ELSE Ok([type |-> "ParseError", line |-> line.val])
            ELSE Ok([f \in required \cup {"type"} |->
                       IF f = "type" THEN type ELSE fields[f].value])
        Visit(read) ==
            IF read.tag = "Err" THEN Err("serde_json::Error")
            ELSE IF "type" \notin DOMAIN read.val THEN Err("serde_json::Error")
            ELSE IF read.val.type.json # "string" THEN Err("serde_json::Error")
            ELSE IF read.val.type.value \notin VariantNames THEN Err("serde_json::Error")
            ELSE Variant(read.val.type.value, RequiredFields(read.val.type.value), read.val)
    IN  Visit(ErrorCode_fields(j))

ProcessResult_to_json(r) ==
    JsonObject([level |-> JsonString(r.level), code |-> ErrorCode_to_json(r.code)])

ConvertResponse_to_json(resp) ==
    JsonObject(IF resp.image_data = None
               THEN [result |-> ProcessResult_to_json(resp.result)]
               ELSE [result |-> ProcessResult_to_json(resp.result),
                     image_data |-> JsonBytes(resp.image_data.val)])

\* Deserialize for StatusLevel, an enum of unit variants: the name of the
\* variant as a string, or an object of one key, the name, whose value is null.
StatusLevel_from_json(j) ==
    IF j.json = "string"
    THEN (IF j.value \in StatusLevel THEN Ok(j.value) ELSE Err("serde_json::Error"))
    ELSE IF /\ j.json = "object"
            /\ Cardinality(DOMAIN j.fields) = 1
            /\ \A k \in DOMAIN j.fields : k \in StatusLevel /\ j.fields[k].json = "null"
    THEN Ok(CHOOSE k \in DOMAIN j.fields : TRUE)
    ELSE Err("serde_json::Error")

\* Deserialize for ProcessResult: both fields are required, as keys of an
\* object or as the two elements of an array, the level one that StatusLevel
\* reads and the code one that ErrorCode reads.
ProcessResult_from_json(j) ==
    LET Both(level, code) ==
            IF level.tag = "Err" \/ code.tag = "Err" THEN Err("serde_json::Error")
            ELSE Ok([level |-> level.val, code |-> code.val])
        Visit(read) ==
            IF read.tag = "Err" THEN Err("serde_json::Error")
            ELSE IF ~({"level", "code"} \subseteq DOMAIN read.val) THEN Err("serde_json::Error")
            ELSE Both(StatusLevel_from_json(read.val.level), ErrorCode_from_json(read.val.code))
    IN  Visit(StructFields(j, <<"level", "code">>))

\* Deserialize for Option<Vec<u8>>: a missing key and null are None, an
\* array must hold numbers a u8 holds.
ImageData_from_json(fields) ==
    IF "image_data" \notin DOMAIN fields THEN Ok(None)
    ELSE IF fields.image_data.json = "null" THEN Ok(None)
    ELSE IF fields.image_data.json # "array" THEN Err("serde_json::Error")
    ELSE IF \E i \in 1..Len(fields.image_data.value) :
               ~Reads(fields.image_data.value[i], "u8")
    THEN Err("serde_json::Error")
    ELSE Ok(Some([i \in 1..Len(fields.image_data.value) |->
                    fields.image_data.value[i].value]))

\* response.json::<ConvertResponse>(): an object with the result, or an array
\* of the result and the image data.
ConvertResponse_from_json(j) ==
    LET Both(r, img) ==
            IF r.tag = "Err" \/ img.tag = "Err" THEN Err("serde_json::Error")
            ELSE Ok([result |-> r.val, image_data |-> img.val])
        Visit(read) ==
            IF read.tag = "Err" THEN Err("serde_json::Error")
            ELSE IF "result" \notin DOMAIN read.val THEN Err("serde_json::Error")
            ELSE Both(ProcessResult_from_json(read.val.result), ImageData_from_json(read.val))
    IN  Visit(StructFields(j, <<"result", "image_data">>))

\* A plausible slip: the body parsed whatever the status.
convert_plantuml_unchecked(reply) ==
    IF reply.kind = "send_error"
    THEN Err(ApiError_NetworkError(MSG_NO_ANSWER))
    ELSE LET parsed == IF reply.kind = "body_error" THEN Err("reqwest::Error")
                       ELSE ConvertResponse_from_json(reply.body)
         IN  IF parsed.tag = "Err"
             THEN Err(ApiError_NetworkError(MSG_PARSE_FAILED))
             ELSE IF parsed.val.image_data # None
             THEN Ok(<<parsed.val.image_data.val, parsed.val.result>>)
             ELSE Err(from_process_result(parsed.val.result))

\* convert_plantuml from the completion of send() on: reply is what the POST
\* came to.
convert_plantuml(reply) ==
    IF reply.kind = "send_error"
    THEN Err(ApiError_NetworkError(MSG_NO_ANSWER))
    ELSE IF IsSuccessStatus(reply.status)
    THEN LET parsed == IF reply.kind = "body_error" THEN Err("reqwest::Error")
                       ELSE ConvertResponse_from_json(reply.body)
         IN  IF parsed.tag = "Err"
             THEN Err(ApiError_NetworkError(MSG_PARSE_FAILED))
             ELSE IF parsed.val.image_data # None
             THEN Ok(<<parsed.val.image_data.val, parsed.val.result>>)
             ELSE Err(from_process_result(parsed.val.result))
    ELSE Err(ApiError_ServerError(HttpErrorText(reply.status)))

\* export_plantuml from the completion of send() on.
export_plantuml(reply) ==
    IF reply.kind = "send_error"
    THEN Err(ApiError_NetworkError(MSG_NO_ANSWER))
    ELSE IF IsSuccessStatus(reply.status)
    THEN LET parsed == IF reply.kind = "body_error" THEN Err("reqwest::Error")
                       ELSE ConvertResponse_from_json(reply.body)
         IN  IF parsed.tag = "Err"
             THEN Err(ApiError_NetworkError(MSG_PARSE_FAILED))
             ELSE IF parsed.val.image_data # None
             THEN Ok(<<parsed.val.image_data.val, parsed.val.result>>)
             ELSE Err(from_process_result(parsed.val.result))
    ELSE Err(ApiError_ServerError(HttpErrorText(reply.status)))

\* Bodies the server may send: the envelopes the gateway builds, envelopes of
\* other shapes, and bodies that are no envelope.
API_BODY_NOT_JSON == [json |-> "invalid"]

API_BODY_OTHER_OBJECT == JsonObject([error |-> JsonString("not found")])

API_BODY_BAD_RESULT == JsonObject([result |-> JsonString("ok")])

API_BODY_NULL_IMAGE ==
    [json |-> "object",
     fields |-> [result |-> ProcessResult_to_json(
                                [level |-> Error,
                                 code |-> [type |-> "ParseError", line |-> Some(3)]]),
                 image_data |-> JsonNull]]

API_BODY_TEXT_IMAGE ==
    [json |-> "object",
     fields |-> [result |-> ProcessResult_to_json(ProcessResult_new([type |-> "ConversionOk"])),
                 image_data |-> JsonString("iVBORw0KGgo=")]]

\* An envelope whose code names no variant of ErrorCode.
API_BODY_UNKNOWN_CODE ==
    JsonObject([result |-> JsonObject([level |-> JsonString(Error),
                                       code |-> JsonObject([type |-> JsonString("RenderError")])])])

\* An envelope whose code has a field of another type: a negative max_slots.
API_BODY_NEGATIVE_FIELD ==
    JsonObject([result |-> JsonObject(
                   [level |-> JsonString(Warning),
                    code |-> JsonObject([type |-> JsonString("StorageSlotLimit"),
                                         max_slots |-> JsonNumber(-1)])])])

\* An envelope whose image data holds a number no u8 holds.
API_BODY_WIDE_BYTE ==
    JsonObject([result |-> ProcessResult_to_json(ProcessResult_new([type |-> "ConversionOk"])),
                image_data |-> JsonBytes(<<137, 300>>)])

\* An envelope written as arrays: the result and the image data, the result
\* the level and the code, the code its tag alone.
API_BODY_ARRAYS ==
    JsonArray(<<JsonArray(<<JsonString(Info), JsonArray(<<JsonString("ConversionOk")>>)>>),
                JsonBytes(<<137, 80>>)>>)

\* An envelope in array form without image data, the code an array with its
\* field.
API_BODY_ARRAYS_NO_IMAGE ==
    JsonArray(<<JsonObject([level |-> JsonString(Error),
                            code |-> JsonArray(<<JsonString("ExportError"),
                                                 JsonString("png")>>)]),
                JsonNull>>)

\* An array that ends before the image data.
API_BODY_SHORT_ARRAY ==
    JsonArray(<<ProcessResult_to_json(ProcessResult_new([type |-> "ConversionOk"]))>>)

\* An array-form code with an element its variant has no field for.
API_BODY_LONG_CODE ==
    JsonObject([result |-> JsonObject([level |-> JsonString(Info),
                                       code |-> JsonArray(<<JsonString("ConversionOk"),
                                                            JsonNumber(1)>>)]),
                image_data |-> JsonBytes(BODY_PNG)])

\* An envelope whose level is written as an object of the variant's name.
API_BODY_LEVEL_OBJECT ==
    JsonObject([result |-> JsonObject([level |-> JsonObject([INFO |-> JsonNull]),
                                       code |-> JsonObject([type |-> JsonString("ConversionOk")])]),
                image_data |-> JsonBytes(BODY_PNG)])

\* A level object whose value is not null.
API_BODY_LEVEL_VALUE ==
    JsonObject([result |-> JsonObject([level |-> JsonObject([INFO |-> JsonNumber(1)]),
                                       code |-> JsonObject([type |-> JsonString("ConversionOk")])]),
                image_data |-> JsonBytes(BODY_PNG)])

ApiBodies ==
    {API_BODY_NOT_JSON, API_BODY_OTHER_OBJECT, API_BODY_BAD_RESULT,
     API_BODY_NULL_IMAGE, API_BODY_TEXT_IMAGE, API_BODY_UNKNOWN_CODE,
     API_BODY_NEGATIVE_FIELD, API_BODY_WIDE_BYTE,
     API_BODY_ARRAYS, API_BODY_ARRAYS_NO_IMAGE, API_BODY_SHORT_ARRAY,
     API_BODY_LONG_CODE, API_BODY_LEVEL_OBJECT, API_BODY_LEVEL_VALUE,
     ConvertResponse_to_json(ErrorResponse(Error, [type |-> "ExportError"])),
     ConvertResponse_to_json(ErrorResponse(Error, [type |-> "ExportError", format |-> "png"])),
     ConvertResponse_to_json(SuccessResponse("convert", BODY_PNG)),
     ConvertResponse_to_json(SuccessResponse("export", BODY_PNG)),
     ConvertResponse_to_json(SuccessResponse("convert", <<>>)),
     ConvertResponse_to_json(ErrorResponse(Error, [type |-> "ParseError"])),
     ConvertResponse_to_json(ConvertResponse_error([type |-> "ValidationEmpty"])),
     ConvertResponse_to_json([result |-> ProcessResult_new([type |-> "ValidationEmpty"]),
                              image_data |-> Some(BODY_PNG)])}

\* What the POST can come to: the whole response read, no response at all, or
\* the body failing after the status line.
ApiReplies ==
    [kind : {"response"}, status : Statuses, body : ApiBodies]
    \cup [kind : {"send_error"}]
    \cup [kind : {"body_error"}, status : Statuses]

ApiCalls ==
    {Call("convert_plantuml", reply) : reply \in ApiReplies}
    \cup {Call("export_plantuml", reply) : reply \in ApiReplies}

ApiInit == taxIn \in ApiCalls /\ taxOut = Pending

ApplyConvertPlantuml ==
    /\ taxOut = Pending /\ taxIn.f = "convert_plantuml"
    /\ taxOut' = Some(convert_plantuml(taxIn.arg))
    /\ UNCHANGED <<appVars, vtext, vres, taxIn, reqs, storeVars>>

ApplyExportPlantuml ==
    /\ taxOut = Pending /\ taxIn.f = "export_plantuml"
    /\ taxOut' = Some(export_plantuml(taxIn.arg))
    /\ UNCHANGED <<appVars, vtext, vres, taxIn, reqs, storeVars>>

(***************************************************************************)
(* Editor page (web-ui/src/lib.rs, components/editor.rs)                   *)
(***************************************************************************)
\* impl From<StatusLevel> for MessageLevel
MessageLevel_from(level) ==
    CASE level = Info -> "Info"
      [] level = Warning -> "Warning"
      [] level = Error -> "Error"

\* ErrorCode::to_message: a text chosen by the code.
to_message(code) == <<"message for", code.type>>

\* impl Display for ApiError
ApiError_to_string(e) ==
    CASE e.variant = "NetworkError" -> <<"network error: ", e.msg>>
      [] e.variant = "ServerError" -> <<"server error: ", e.msg>>
      [] e.variant = "ProcessError" -> <<"process error: ", to_message(e.code)>>

MSG_SVG_ERROR == "SVG conversion error"

\* The UTF-8 byte of a character of one byte.
ByteOf(c) ==
    CASE c = CH_SPACE -> 32
      [] c = CH_NEWLINE -> 10
      [] c = CH_DOT -> 46
      [] c = CH_X -> 120

\* The bytes of a text of one-byte characters.
RECURSIVE BytesOf(_)
BytesOf(s) ==
    IF s = <<>> THEN <<>>
    ELSE [i \in 1..Head(s).n |-> ByteOf(Head(s).c)] \o BytesOf(Tail(s))

\* String::from_utf8 for bodies without multi-byte sequences: a byte of 128
\* or more stands alone and is refused.
from_utf8(bytes) ==
    IF \A i \in 1..Len(bytes) : bytes[i] < 128 THEN Ok(bytes) ELSE Err("FromUtf8Error")

\* urlencoding::encode: letters, digits and - _ . ~ are kept, every other
\* byte becomes a percent escape.
Unreserved(b) ==
    \/ b >= 48 /\ b <= 57
    \/ b >= 65 /\ b <= 90
    \/ b >= 97 /\ b <= 122
    \/ b \in {45, 46, 95, 126}

urlencoding_encode(svg_text) ==
    [i \in 1..Len(svg_text) |-> [escaped |-> ~Unreserved(svg_text[i]), byte |-> svg_text[i]]]

\* format!("data:image/svg+xml;charset=utf-8,{}", ...)
DataUrl(svg_text) ==
    [prefix |-> "data:image/svg+xml;charset=utf-8,", data |-> urlencoding_encode(svg_text)]

\* What the page shows once a conversion has returned: the three state
\* handles the spawned task sets.
Shown(image_data, message, message_level) ==
    [image_data |-> image_data, message |-> message, message_level |-> message_level]

\* The `match convert_plantuml(..).await` of the task spawned by
\* on_text_change.
ConversionShown(result) ==
    IF result.tag = "Ok"
    THEN LET utf8 == from_utf8(result.val[1]) IN
         IF utf8.tag = "Ok"
         THEN Shown(Some(DataUrl(utf8.val)), to_message(result.val[2].code),
                    MessageLevel_from(result.val[2].level))
         ELSE Shown(None, MSG_SVG_ERROR, "Error")
    ELSE IF result.err.variant = "ProcessError"
    THEN Shown(None, to_message(result.err.code),
               MessageLevel_from(ProcessResult_new(result.err.code).level))
    ELSE Shown(None, ApiError_to_string(result.err), "Error")

\* The `match export_plantuml(..).await` of the task spawned by on_export:
\* the message and the level it sets; the image on the page is left alone.
ExportShown(result) ==
    IF result.tag = "Ok"
    THEN [message |-> to_message(result.val[2].code),
          message_level |-> MessageLevel_from(result.val[2].level)]
    ELSE IF result.err.variant = "ProcessError"
    THEN [message |-> to_message(result.err.code),
          message_level |-> MessageLevel_from(ProcessResult_new(result.err.code).level)]
    ELSE [message |-> <<"export error: ", ApiError_to_string(result.err)>>,
          message_level |-> "Error"]

\* The SVG the renderer draws for a text: a document that holds the text.
BODY_SVG_OPEN == <<60, 115, 118, 103, 62>>

SvgOf(text) == BODY_SVG_OPEN \o BytesOf(text)

\* What the renderer's answer to the GET for a text can come to: the replies
\* of Replies, and the drawing of the text.
RendererReplies(text) ==
    Replies \cup {[kind |-> "response", status |-> 200, body |-> SvgOf(text)]}

\* The responses the gateway's handler op can give to a request: the
\* validation error, the client that cannot be built, the text that cannot be
\* encoded, and what the handler makes of each reply of the renderer.
GatewayResponses(op, text, format) ==
    LET received == [IdleRequest EXCEPT !.pc = "Received", !.op = op, !.text = text,
                                        !.format = format]
        validated == ValidateStep(received)
    IN  IF validated.pc = "Rejected" THEN {validated.response.val}
        ELSE UNION {LET started == StartStep(validated, built, encoded) IN
                    IF started.pc = "Failed" THEN {started.response.val}
                    ELSE {ReturnStep(started, 1, reply).response.val :
                              reply \in RendererReplies(text)} :
                    built \in BOOLEAN, encoded \in BOOLEAN}

\* The reply of the gateway that carries a response: the handlers answer
\* every request with 200 and the JSON of the response.
GatewayReply(response) ==
    [kind |-> "response", status |-> 200, body |-> ConvertResponse_to_json(response)]

\* What a POST of the page can come to: a reply of the gateway, a refusal
\* by the server in front of the handler (a status outside 2xx, the body not
\* an envelope), the body failing after the status line, or no reply.
UiReplies(op, text, format) ==
    {GatewayReply(response) : response \in GatewayResponses(op, text, format)}
    \cup {[kind |-> "response", status |-> 500, body |-> API_BODY_NOT_JSON],
          [kind |-> "body_error", status |-> 200],
          [kind |-> "send_error"]}

MaxCallers == 2

Callers == 1..MaxCallers

MaxPages == 1

\* The tabs whose editor and export button are used.
UiPages == 1..MaxPages

MaxChanges == 2

MaxExports == 1

\* The texts the editor emits.
TEXT_TWO_LINES == <<Run(CH_X, 1), Run(CH_NEWLINE, 1), Run(CH_X, 1)>>

UiTexts == {TEXT_BLANK, TEXT_SMALL, TEXT_TWO_LINES}

\* The state of App before anything is typed: use_state(String::new), 0,
\* None, false, "" and MessageLevel::Info; no task spawned, and the slot list
\* not mounted yet.
UiIdle ==
    [plantuml_text |-> <<>>, editor_key |-> 0, image_data |-> None, loading |-> FALSE,
     message |-> <<>>, message_level |-> "Info", slots |-> <<>>, spawned |-> <<>>,
     exports |-> <<>>]

\* The page mounted over the store st: the slot list keeps the list_slots()
\* of its first render.
Mounted(st) == [UiIdle EXCEPT !.slots = list_slots(st).result.val]

\* No tab open.
UiInit == ui = [c \in Callers |-> UiIdle]

\* Every tab open over the store, nothing typed.
PagesMounted == ui = [c \in Callers |-> Mounted(store)]

\* message.set(result.message()); message_level.set(result.level.into())
ShowResult(page, result) ==
    [page EXCEPT !.message = to_message(result.code),
                 !.message_level = MessageLevel_from(result.level)]

\* on_text_change up to the spawn: the text and the loading flag are set and
\* a conversion of the text is spawned.
TextChanged(page, text) ==
    [page EXCEPT !.plantuml_text = text,
                 !.loading = TRUE,
                 !.spawned = Append(@, [text |-> text, shown |-> None])]

\* The editor's debounce timer of tab c fires and on_change emits the text.
TextChange(c) ==
    /\ callers[c].pc # "panicked"
    /\ Len(ui[c].spawned) < MaxChanges
    /\ \E text \in UiTexts : ui' = [ui EXCEPT ![c] = TextChanged(@, text)]
    /\ UNCHANGED <<vtext, vres, taxIn, taxOut, reqs, storeVars, callers, lastWrite>>

\* The conversion tab c spawned k-th gets its reply: the rest of the spawned
\* task.
ConversionReturns(c, k) ==
    /\ callers[c].pc # "panicked"
    /\ k \in 1..Len(ui[c].spawned)
    /\ ui[c].spawned[k].shown = None
    /\ \E reply \in UiReplies("convert", ui[c].spawned[k].text, "Svg") :
          LET shown == ConversionShown(convert_plantuml(reply)) IN
          ui' = [ui EXCEPT ![c] =
                    [@ EXCEPT !.image_data = shown.image_data,
                              !.message = shown.message,
                              !.message_level = shown.message_level,
                              !.loading = FALSE,
                              !.spawned[k].shown = Some(shown)]]
    /\ UNCHANGED <<vtext, vres, taxIn, taxOut, reqs, storeVars, callers, lastWrite>>

\* An export button of tab c is pressed: on_export spawns an export of the
\* text on the page.
ExportClicked(c) ==
    /\ callers[c].pc # "panicked"
    /\ Len(ui[c].exports) < MaxExports
    /\ \E format \in Formats :
          ui' = [ui EXCEPT ![c].exports =
                    Append(@, [text |-> ui[c].plantuml_text, format |-> format,
                               shown |-> None])]
    /\ UNCHANGED <<vtext, vres, taxIn, taxOut, reqs, storeVars, callers, lastWrite>>

\* The export tab c spawned k-th gets its reply: the rest of the spawned task.
ExportReturns(c, k) ==
    /\ callers[c].pc # "panicked"
    /\ k \in 1..Len(ui[c].exports)
    /\ ui[c].exports[k].shown = None
    /\ \E reply \in UiReplies("export", ui[c].exports[k].text, ui[c].exports[k].format) :
          LET shown == ExportShown(export_plantuml(reply)) IN
          ui' = [ui EXCEPT ![c] =
                    [@ EXCEPT !.message = shown.message,
                              !.message_level = shown.message_level,
                              !.exports[k].shown = Some(shown)]]
    /\ UNCHANGED <<vtext, vres, taxIn, taxOut, reqs, storeVars, callers, lastWrite>>

(***************************************************************************)
(* Save button (web-ui/src/components/save_button.rs) and the callbacks of *)
(* the application it emits to (web-ui/src/lib.rs).  A caller is a tab of  *)
(* the editor; the tabs of one origin share localStorage.                  *)
(***************************************************************************)
BUTTON_MAX_CHARS == 24000

BUTTON_SLOTS == 10

OnSave(slot_num) == [event |-> "on_save", slot |-> slot_num]

OnError(error) == [event |-> "on_error", error |-> error]

\* enum SaveValidationError
SaveValidationError_EmptyContent == [variant |-> "EmptyContent"]

SaveValidationError_ContentTooLarge(len) == [variant |-> "ContentTooLarge", len |-> len]

SaveValidationError_StorageError(e) == [variant |-> "StorageError", error |-> e]

\* What a click comes to: the events it emitted, in order, and the number of
\* slots it loaded.
Clicked(events, reads) == [events |-> events, reads |-> reads]

\* The loop `for slot_num in 1..=10` from slot_num on, and the SlotsFull that
\* follows it.
RECURSIVE ScanFrom(_, _, _, _)
ScanFrom(st, slot_num, events, reads) ==
    IF slot_num > BUTTON_SLOTS
    THEN Clicked(Append(events, OnError(SaveValidationError_StorageError(
                                            [variant |-> "SlotsFull"]))), reads)
    ELSE IF load_from_slot(st, slot_num).result = Ok(None)
    THEN Clicked(Append(events, OnSave(slot_num)), reads + 1)
    ELSE ScanFrom(st, slot_num + 1, events, reads + 1)

\* The on_click callback of the save button.
save_button_click(st, plantuml_text) ==
    IF IsEmpty(Trim(plantuml_text))
    THEN Clicked(<<OnError(SaveValidationError_EmptyContent)>>, 0)
    ELSE IF StrLen(plantuml_text) > BUTTON_MAX_CHARS
    THEN Clicked(<<OnError(SaveValidationError_ContentTooLarge(StrLen(plantuml_text)))>>, 0)
    ELSE ScanFrom(st, 1, <<>>, 0)

\* The on_save callback of the application: save_to_slot and the result shown.
on_save(st, slot, plantuml_text, now, saved_at, id, accepted) ==
    LET out == save_to_slot(st, slot, plantuml_text, now, saved_at, id, accepted) IN
    [store |-> out.store,
     writes |-> out.writes,
     result |-> IF out.result.tag = "Ok"
                THEN storage_success_result(
                         [type |-> "SaveSuccess", slot_number |-> as_u8(slot)], as_u8(slot))
                ELSE storage_error_to_result(out.result.err, Some(as_u8(slot)))]

\* The on_save_error callback of the application: the result shown.
on_save_error(error) ==
    CASE error.variant = "EmptyContent" ->
            ProcessResult_new([type |-> "ValidationEmpty"])
      [] error.variant = "ContentTooLarge" ->
            ProcessResult_new([type |-> "StorageInputLimit", actual |-> error.len,
                               max |-> BUTTON_MAX_CHARS])
      [] error.variant = "StorageError" ->
            storage_error_to_result(error.error, None)

\* The on_load callback of the application: load_from_slot, the text put into
\* the editor when there is one, and the result shown.
on_load(st, slot) ==
    LET out == load_from_slot(st, slot) IN
    [store |-> out.store,
     loaded |-> IF out.result.tag = "Ok" THEN out.result.val ELSE None,
     result |-> IF out.result.tag = "Err"
                THEN storage_error_to_result(out.result.err, Some(as_u8(slot)))
                ELSE IF out.result.val = None
                THEN ProcessResult_new([type |-> "StorageReadError",
                                        reason |-> "no data in the slot"])
                ELSE storage_success_result(
                         [type |-> "LoadSuccess", slot_number |-> as_u8(slot)], as_u8(slot))]

\* The on_delete callback of the application: delete_slot and the result shown.
on_delete(st, slot) ==
    LET out == delete_slot(st, slot) IN
    [store |-> out.store,
     result |-> IF out.result.tag = "Ok"
                THEN storage_success_result(
                         [type |-> "DeleteSuccess", slot_number |-> as_u8(slot)], as_u8(slot))
                ELSE storage_error_to_result(out.result.err, Some(as_u8(slot)))]

\* The loads that put a text into the editor, per tab.
MaxLoads == 1

\* The texts in the editors.
ButtonTexts == {TEXT_BLANK_LONG, TEXT_SMALL, TEXT_OVER_LIMIT, T_WIDE, TEXT_WIDE}

\* The slots whose delete button is pressed.
DeleteArgs == {1, 2}

\* The slots whose load button is pressed.
LoadArgs == {1, 2}

\* All ten slots hold a record.
FullStore == [k \in {storage_key(n) : n \in Slots} |-> to_json(TitledSlot(k[2]))]

\* The stores at the start: none, all, or all but some of the slots occupied,
\* and all occupied but for an item that does not parse.
ButtonStores ==
    {EmptyStore, FullStore,
     [k \in DOMAIN FullStore \ {storage_key(2)} |-> FullStore[k]],
     [k \in DOMAIN FullStore \ {storage_key(1), storage_key(2)} |-> FullStore[k]],
     [FullStore EXCEPT ![storage_key(1)] = RAW_GARBAGE]}

IdleCaller ==
    [pc |-> "idle", text |-> <<>>, slot |-> 0, events |-> <<>>, reads |-> 0,
     writes |-> 0, now |-> 0, saved_at |-> 0, result |-> None]

\* No button pressed.
ButtonsIdle ==
    /\ callers = [c \in Callers |-> IdleCaller]
    /\ lastWrite = [n \in Slots |-> None]

\* The tabs at the start: each with a text typed into its editor, over one
\* of the stores, no button pressed yet.
CallersInit ==
    /\ store \in ButtonStores
    /\ clock = 0
    /\ slotOp = Idle
    /\ held = [n \in Slots |-> None]
    /\ ButtonsIdle
    /\ ui \in [Callers -> {TextChanged(Mounted(store), text) : text \in ButtonTexts}]

AppIdle == ButtonsIdle /\ UiInit

\* The DocumentId drawn by the save of caller c: no two saves draw the same.
DocIdOf(c) == <<"uuid", c>>

\* Caller c clicks the save button, whose text is the one on the page:
\* validation and scan, and on_save_error at once when the event is on_error.
\* An on_save(n) is taken up by SaveChosen.
ClickSave(c) ==
    /\ callers[c].pc = "idle"
    /\ LET text == ui[c].plantuml_text
           click == save_button_click(store, text)
           last == click.events[Len(click.events)]
       IN  /\ callers' = [callers EXCEPT ![c] =
                  [@ EXCEPT !.pc = IF last.event = "on_save" THEN "chosen" ELSE "done",
                            !.text = text,
                            !.slot = IF last.event = "on_save" THEN last.slot ELSE 0,
                            !.events = click.events,
                            !.reads = click.reads,
                            !.result = IF last.event = "on_save" THEN None
                                       ELSE Some(on_save_error(last.error))]]
           /\ ui' = IF last.event = "on_save" THEN ui
                    ELSE [ui EXCEPT ![c] = ShowResult(@, on_save_error(last.error))]
    /\ UNCHANGED <<vtext, vres, taxIn, taxOut, reqs, storeVars, lastWrite>>

\* on_save(n) of caller c runs: the write of the slot chosen by the scan; the
\* save reads the clock twice, and a second may pass between the readings.
\* Within a tab it follows the scan at once; another tab may act in between.
SaveChosen(c) ==
    /\ callers[c].pc = "chosen"
    /\ \E accepted \in BOOLEAN, later \in {clock, clock + 1} \cap Times :
          LET done == on_save(store, callers[c].slot, callers[c].text, clock, later,
                              DocIdOf(c), accepted)
          IN  /\ store' = done.store
              /\ clock' = later
              /\ callers' = [callers EXCEPT ![c] =
                      [@ EXCEPT !.pc = "done", !.writes = done.writes,
                                !.now = clock, !.saved_at = later,
                                !.result = Some(done.result)]]
              /\ ui' = [ui EXCEPT ![c] = ShowResult(@, done.result)]
              /\ lastWrite' = IF done.result.level = Info
                              THEN [lastWrite EXCEPT ![callers[c].slot] =
                                       Some([op |-> "save", by |-> c])]
                              ELSE lastWrite
    /\ UNCHANGED <<vtext, vres, taxIn, taxOut, reqs, slotOp, held>>

\* The refresh_slots callback of the slot list: slots.set(list_slots()),
\* which the panic of list_slots never reaches.
refresh_slots(page, st) ==
    LET listed == list_slots(st) IN
    [page |-> IF listed.result = Panic THEN page
              ELSE [page EXCEPT !.slots = listed.result.val],
     panic |-> listed.result = Panic]

\* Caller c presses the delete button of a slot: on_delete, then the refresh
\* of the slot list.  A panic in the refresh ends the handler and the tab.
DeleteClicked(c) ==
    /\ callers[c].pc = "idle"
    /\ \E slot \in DeleteArgs :
          LET done == on_delete(store, slot)
              refreshed == refresh_slots(ShowResult(ui[c], done.result), done.store)
          IN
          /\ store' = done.store
          /\ callers' = [callers EXCEPT ![c] =
                  [@ EXCEPT !.pc = IF refreshed.panic THEN "panicked" ELSE "done",
                            !.slot = slot, !.result = Some(done.result)]]
          /\ ui' = [ui EXCEPT ![c] = refreshed.page]
          /\ lastWrite' = [lastWrite EXCEPT ![slot] = Some([op |-> "delete", by |-> c])]
    /\ UNCHANGED <<vtext, vres, taxIn, taxOut, reqs, clock, slotOp, held>>

\* Caller c presses the load button of a slot: on_load.  The text loaded
\* replaces the one on the page and the editor is mounted anew; no conversion
\* is spawned.
LoadClicked(c) ==
    /\ callers[c].pc \notin {"chosen", "panicked"}
    /\ ui[c].editor_key < MaxLoads
    /\ \E slot \in LoadArgs :
          LET done == on_load(store, slot) IN
          /\ store' = done.store
          /\ ui' = [ui EXCEPT ![c] =
                      ShowResult(IF done.loaded = None THEN @
                                 ELSE [@ EXCEPT !.plantuml_text = done.loaded.val,
                                                !.editor_key = @ + 1],
                                 done.result)]
    /\ UNCHANGED <<vtext, vres, taxIn, taxOut, reqs, clock, slotOp, held, callers,
                   lastWrite>>

(***************************************************************************)
(* Specifications                                                          *)
(***************************************************************************)
\* The gateway handling requests.
Init == GatewayInit /\ ValIdle /\ TaxIdle /\ StoreIdle /\ AppIdle

Next ==
    \E r \in Requests :
        \/ Receive(r)
        \/ ValidateRequest(r)
        \/ StartRender(r)
        \/ RenderReturn(r)

Spec == Init /\ [][Next]_vars

\* The gateway with its scheduling: axum runs a handler it has been handed
\* (validation and the start of the render are plain code that runs on), and
\* reqwest's 30 s timeout ends every send, by a reply or by an error.
SpecFair ==
    /\ Spec
    /\ \A r \in Requests :
          /\ WF_vars(ValidateRequest(r))
          /\ WF_vars(StartRender(r))
          /\ WF_vars(RenderReturn(r))

\* validate_plantuml_content applied to every text of Texts.
InitValidate == GatewayInit /\ ValInit /\ TaxIdle /\ StoreIdle /\ AppIdle

NextValidate == Validate

SpecValidate == InitValidate /\ [][NextValidate]_vars

\* The taxonomy's functions applied to every code and storage error.
InitTaxonomy == GatewayInit /\ ValIdle /\ TaxInit /\ StoreIdle /\ AppIdle

NextTaxonomy ==
    \/ ApplyStatusLevel
    \/ ApplyProcessResultNew
    \/ ApplyStorageErrorToResult
    \/ ApplyStorageSuccessResult

SpecTaxonomy == InitTaxonomy /\ [][NextTaxonomy]_vars

\* get_preview applied to every content of PreviewTexts.
InitPreview == GatewayInit /\ ValIdle /\ PreviewInit /\ StoreIdle /\ AppIdle

NextPreview == ApplyGetPreview

SpecPreview == InitPreview /\ [][NextPreview]_vars

\* convert_plantuml and export_plantuml applied to every reply of ApiReplies.
InitApi == GatewayInit /\ ValIdle /\ ApiInit /\ StoreIdle /\ AppIdle

NextApi ==
    \/ ApplyConvertPlantuml
    \/ ApplyExportPlantuml

SpecApi == InitApi /\ [][NextApi]_vars

\* Text changes in the editor and the conversions they start.
InitUi ==
    /\ GatewayInit /\ ValIdle /\ TaxIdle
    /\ store \in {EmptyStore, [k \in {storage_key(1)} |-> to_json(TitledSlot(1))]}
    /\ clock = 0
    /\ slotOp = Idle
    /\ held = [n \in Slots |-> None]
    /\ ButtonsIdle
    /\ PagesMounted

NextUi ==
    \E c \in UiPages :
        \/ TextChange(c)
        \/ \E k \in 1..MaxChanges : ConversionReturns(c, k)
        \/ ExportClicked(c)
        \/ \E k \in 1..MaxExports : ExportReturns(c, k)
        \/ LoadClicked(c)

SpecUi == InitUi /\ [][NextUi]_vars

\* The save and delete buttons pressed in the tabs of the editor.
InitButton == GatewayInit /\ ValIdle /\ TaxIdle /\ CallersInit

NextButton ==
    \E c \in Callers :
        \/ ClickSave(c)
        \/ SaveChosen(c)
        \/ DeleteClicked(c)

SpecButton == InitButton /\ [][NextButton]_vars

\* The slot store called in any order.
InitStore == GatewayInit /\ ValIdle /\ TaxIdle /\ StoreInit /\ AppIdle

NextStore ==
    \/ Tick
    \/ SaveSlot
    \/ LoadSlot
    \/ DeleteSlot
    \/ ListSlots

SpecStore == InitStore /\ [][NextStore]_vars

(***************************************************************************)
(* Properties                                                              *)
(***************************************************************************)
AllWhitespace(s) == \A i \in 1..Len(s) : IsWhitespace(s[i].c)

Done(r) == reqs[r].response # None

ResponseOf(r) == reqs[r].response.val

\* C1: validate_plantuml_content returns EmptyContent when the text is empty or
\* all whitespace (also when it is longer than the limit), else
\* ContentTooLarge(len, 24000) when its length len is over 24000, else Ok; len
\* is the length the code measures, str::len.
C1_ValidateContract ==
    vres \notin {Pending, Idle} =>
        vres = IF AllWhitespace(vtext) THEN Err(EmptyContent)
               ELSE IF StrLen(vtext) > 24000
               THEN Err([variant |-> "ContentTooLarge",
                         actual |-> StrLen(vtext), max |-> 24000])
               ELSE Ok("unit")

\* C1 witness: a whitespace-only text longer than the limit was validated and
\* came back EmptyContent.
C1_Witness ==
    /\ vres = Err(EmptyContent)
    /\ StrLen(vtext) > 24000
    /\ vtext # <<>>

\* C2 (as claimed): every text that is not whitespace-only and has at most
\* 24,000 characters is accepted.
C2_CharLimit ==
    (vres \notin {Pending, Idle} /\ ~AllWhitespace(vtext) /\ CharCount(vtext) <= 24000)
        => vres = Ok("unit")

\* C3: a request whose text fails validation is answered with the validation
\* code, level Warning and no image, and no render client is built and no GET
\* issued for it; a GET is only ever issued for a text that passed validation.
C3_RejectedBeforeRender ==
    \A r \in Requests :
        LET v == validate_plantuml_content(reqs[r].text) IN
        /\ (reqs[r].pc \notin {"idle", "Received"} /\ v.tag = "Err") =>
              /\ reqs[r].pc = "Rejected"
              /\ reqs[r].clients = 0
              /\ reqs[r].gets = 0
              /\ reqs[r].response =
                    Some([result |->
                            [level |-> Warning,
                             code |-> IF v.err.variant = "EmptyContent"
                                      THEN [type |-> "ValidationEmpty"]
                                      ELSE [type |-> "ValidationTextLimit",
                                            actual |-> StrLen(reqs[r].text),
                                            max |-> 24000]],
                          image_data |-> None])
        /\ (reqs[r].clients > 0 \/ reqs[r].gets > 0) => v.tag = "Ok"

\* C3 witness: a too long text was rejected.
C3_Witness ==
    \E r \in Requests :
        /\ reqs[r].pc = "Rejected"
        /\ ResponseOf(r).result.code.type = "ValidationTextLimit"

\* C4: in every response of the gateway the image is present exactly when the
\* code is ConversionOk or ExportOk with level Info; a rejected or failed
\* request is answered without an image.
C4_PayloadIffSuccess ==
    \A r \in Requests :
        Done(r) =>
            /\ (ResponseOf(r).image_data # None) <=>
                  (/\ ResponseOf(r).result.code.type \in {"ConversionOk", "ExportOk"}
                   /\ ResponseOf(r).result.level = Info)
            /\ reqs[r].pc \in {"Rejected", "Failed"} => ResponseOf(r).image_data = None

\* C4 witness: a render that failed after its GET was answered without an
\* image.
C4_Witness ==
    \E r \in Requests :
        /\ reqs[r].pc = "Failed"
        /\ reqs[r].gets = 1
        /\ ResponseOf(r).image_data = None

\* C5 (as claimed): every ProcessResult produced has level = status_level(code).
C5_LevelDerived ==
    (taxOut \notin {Pending, Idle}
     /\ taxIn.f \in {"ProcessResult_new", "storage_error_to_result",
                     "storage_success_result"})
        => taxOut.val.level = status_level(taxOut.val.code)

\* C6: status_level is Info for the five success codes, Warning for
\* ValidationEmpty, ValidationTextLimit, StorageInputLimit and StorageSlotLimit,
\* Error for the network, timeout, server and storage I/O codes, whatever the
\* fields hold.
C6_StatusLevelTable ==
    (taxIn.f = "status_level" /\ taxOut \notin {Pending, Idle}) =>
        /\ taxIn.arg.type \in {"ConversionOk", "ExportOk", "SaveSuccess", "LoadSuccess",
                               "DeleteSuccess"} => taxOut = Some(Info)
        /\ taxIn.arg.type \in {"ValidationEmpty", "ValidationTextLimit",
                               "StorageInputLimit", "StorageSlotLimit"}
              => taxOut = Some(Warning)
        /\ taxIn.arg.type \in {"NetworkError", "TimeoutError", "ServerError",
                               "StorageWriteError", "StorageReadError",
                               "StorageDeleteError"} => taxOut = Some(Error)

\* C6 witness: status_level was applied to a StorageSlotLimit code.
C6_Witness ==
    /\ taxIn.f = "status_level"
    /\ taxIn.arg.type = "StorageSlotLimit"
    /\ taxOut = Some(Warning)

\* C7 (as claimed): SizeLimit, EncodingError and ParseError all have level Error.
C7_ProcessingAllError ==
    (taxIn.f = "status_level" /\ taxOut \notin {Pending, Idle}
     /\ taxIn.arg.type \in {"SizeLimit", "EncodingError", "ParseError"})
        => taxOut = Some(Error)

\* C8: when the render client returns an image, convert answers ConversionOk
\* and export answers ExportOk, both with level Info and the image's bytes;
\* convert never answers ExportOk and export never answers ConversionOk.
C8_SuccessCodePerOperation ==
    \A r \in Requests :
        /\ (reqs[r].render # None /\ reqs[r].render.val.tag = "Ok") =>
              reqs[r].response =
                  Some([result |->
                          [level |-> Info,
                           code |-> [type |-> IF reqs[r].op = "convert"
                                              THEN "ConversionOk" ELSE "ExportOk"]],
                        image_data |-> Some(reqs[r].render.val.val.data)])
        /\ Done(r) =>
              /\ reqs[r].op = "convert" => ResponseOf(r).result.code.type # "ExportOk"
              /\ reqs[r].op = "export" => ResponseOf(r).result.code.type # "ConversionOk"

\* C8 witness: an export succeeded.
C8_Witness ==
    \E r \in Requests :
        /\ reqs[r].pc = "Succeeded"
        /\ reqs[r].op = "export"
        /\ ResponseOf(r).image_data = Some(BODY_PNG)

\* C9: for every 2xx response read in full, whatever its body, the render
\* client returns Ok and the image's data is the body, byte for byte.
C9_AnyBodyOf2xxSucceeds ==
    \A r \in Requests :
        (/\ reqs[r].reply # None
         /\ reqs[r].reply.val.kind = "response"
         /\ reqs[r].reply.val.status \in 200..299) =>
            /\ reqs[r].render.val.tag = "Ok"
            /\ reqs[r].render.val.val.data = reqs[r].reply.val.body

\* C9 witness: a 200 response whose body draws a syntax error was returned.
C9_Witness ==
    \E r \in Requests :
        /\ reqs[r].reply = Some([kind |-> "response", status |-> 200,
                                 body |-> BODY_SYNTAX_ERROR_SVG])
        /\ reqs[r].render.val.tag = "Ok"

\* C10 (as claimed): a non-2xx response makes the render fail, with an Error
\* outcome and no image.
C10_Non2xxFails ==
    \A r \in Requests :
        (/\ reqs[r].reply # None
         /\ reqs[r].reply.val.kind = "response"
         /\ reqs[r].reply.val.status \notin 200..299) =>
            /\ reqs[r].render.val.tag = "Err"
            /\ ResponseOf(r).result.level = Error
            /\ ResponseOf(r).image_data = None

\* The reply of a request whose GET failed in transport.
TransportFailed(r) ==
    /\ reqs[r].reply # None
    /\ reqs[r].reply.val.kind \in {"send_error", "body_error"}

\* C11 (as claimed): a connection failure is answered NetworkError, a timeout
\* TimeoutError and any other transport error ServerError, so that a refused
\* connection and a timeout never get the same code.
C11_TransportClassified ==
    \A r \in Requests :
        TransportFailed(r) =>
            ResponseOf(r).result.code.type =
                CASE reqs[r].reply.val.cause = "connect" -> "NetworkError"
                  [] reqs[r].reply.val.cause = "timeout" -> "TimeoutError"
                  [] reqs[r].reply.val.cause = "other" -> "ServerError"

\* C12: no request has more than one GET issued for it, whatever became of
\* the GET, and none is issued once the request is answered.
C12_AtMostOneGet ==
    /\ [](\A r \in Requests : reqs[r].gets <= 1)
    /\ [][\A r \in Requests :
            /\ reqs[r].pc \in {"Rendering", "Rejected", "Succeeded", "Failed"}
                  => reqs'[r].gets = reqs[r].gets
            /\ reqs'[r].gets > reqs[r].gets => reqs'[r].pc = "Rendering"]_vars

\* C12 witness: a GET that timed out was answered, and it was the only one.
C12_Witness ==
    \E r \in Requests :
        /\ reqs[r].pc = "Failed"
        /\ reqs[r].reply = Some([kind |-> "send_error", cause |-> "timeout"])
        /\ reqs[r].gets = 1

\* The class of a render failure: the variant of the client's error.
FailureClass(res) == res.err.variant

\* C13: the response to a failed render is a function of the failure's class
\* and the operation: any other reply that fails with the same class, whatever
\* its text, would be answered with the same envelope, and so are any two
\* requests that failed with the same class for the same operation; the
\* envelope carries no text of the error.
C13_ResponseByClass ==
    \A r \in Requests :
        (reqs[r].render # None /\ reqs[r].render.val.tag = "Err") =>
            /\ \A reply \in Replies :
                  LET other == convert_after_send(r, reqs[r].format, reply) IN
                  (other.tag = "Err"
                   /\ FailureClass(other) = FailureClass(reqs[r].render.val))
                      => RenderResponse(reqs[r].op, other) = ResponseOf(r)
            /\ \A s \in Requests :
                  (/\ reqs[s].render # None
                   /\ reqs[s].render.val.tag = "Err"
                   /\ FailureClass(reqs[s].render.val) = FailureClass(reqs[r].render.val)
                   /\ reqs[s].op = reqs[r].op)
                      => ResponseOf(s) = ResponseOf(r)
            /\ DOMAIN ResponseOf(r) = {"result", "image_data"}
            /\ DOMAIN ResponseOf(r).result = {"level", "code"}
            /\ DOMAIN ResponseOf(r).result.code = {"type"}

\* C13 witness: a body that could not be read was answered, and a refused
\* connection, whose text differs, is of the same class.
C13_Witness ==
    \E r \in Requests :
        /\ reqs[r].reply = Some([kind |-> "body_error", status |-> 200, cause |-> "other"])
        /\ reqs[r].render.val.err.source
              # ReqwestErrorText([kind |-> "send_error", cause |-> "connect"])
        /\ FailureClass(reqs[r].render.val)
              = FailureClass(convert_after_send(r, reqs[r].format,
                                 [kind |-> "send_error", cause |-> "connect"]))
        /\ ResponseOf(r).result.code.type = "ParseError"

Terminal == {"Rejected", "Succeeded", "Failed"}

\* The steps of a request: received, then rejected or validated; validated,
\* then rendering (the GET in flight) or failed before the GET (no client, no
\* encoding); rendering, then succeeded or failed.
Steps ==
    {<<"idle", "Received">>, <<"Received", "Rejected">>, <<"Received", "Validated">>,
     <<"Validated", "Rendering">>, <<"Validated", "Failed">>,
     <<"Rendering", "Succeeded">>, <<"Rendering", "Failed">>}

\* C14: a request moves only along Received -> (Rejected | Validated ->
\* Rendering -> (Succeeded | Failed)), a render that cannot start failing at
\* once; a terminal state is never left; a request has a response, exactly one,
\* exactly when it is in a terminal state, the level of a rejected or failed
\* one being Warning or Error; and every received request reaches a terminal
\* state with its one response.
C14_Lifecycle ==
    /\ [][\A r \in Requests :
            \/ reqs'[r] = reqs[r]
            \/ /\ <<reqs[r].pc, reqs'[r].pc>> \in Steps
               /\ reqs'[r].emitted =
                     reqs[r].emitted + (IF reqs'[r].pc \in Terminal THEN 1 ELSE 0)]_vars
    /\ [](\A r \in Requests :
            /\ reqs[r].pc \in Terminal <=> Done(r)
            /\ reqs[r].emitted = IF reqs[r].pc \in Terminal THEN 1 ELSE 0
            /\ reqs[r].pc \in {"Rejected", "Failed"}
                  => ResponseOf(r).result.level \in {Warning, Error})
    /\ \A r \in Requests :
          (reqs[r].pc = "Received") ~> (reqs[r].pc \in Terminal /\ reqs[r].emitted = 1)

\* C14 witness: a client that could not be built was answered with an Error
\* response, the only one of its request.
C14_Witness ==
    \E r \in Requests :
        /\ reqs[r].pc = "Failed"
        /\ reqs[r].gets = 0
        /\ reqs[r].emitted = 1
        /\ ResponseOf(r).result = [level |-> Error, code |-> [type |-> "ServerError"]]

\* A slot-store call has been made and slotOp is its record.
Called(op) == slotOp \notin {Pending, Idle} /\ slotOp.op = op

\* C15 (as claimed): save, load and delete of a slot number outside 1..=10,
\* as passed, are rejected without a read, write or delete of the backend, and
\* a save of a number in 1..=10 fails only when the backend refuses the write.
C15_OutOfRangeRejected ==
    /\ (slotOp \notin {Pending, Idle}
        /\ slotOp.op \in {"save", "load", "delete"}
        /\ slotOp.slot \notin Slots) =>
            /\ slotOp.result.tag = "Err"
            /\ slotOp.reads = 0
            /\ slotOp.writes = 0
            /\ slotOp.deletes = 0
    /\ (Called("save") /\ slotOp.slot \in Slots) =>
            \/ slotOp.result = Ok("unit")
            \/ slotOp.result = Err([variant |-> "QuotaExceeded"])

\* C16 (as claimed): load(n), n in 1..=10, returns the text of the last
\* successful save(n, text) that no delete(n) followed.
C16_LoadReturnsLastSave ==
    (Called("load") /\ slotOp.slot \in Slots /\ held[slotOp.slot].tag = "Some")
        => slotOp.result = Ok(held[slotOp.slot])

\* C17 (as claimed): load(n), n in 1..=10, of a slot that was never saved (no
\* item was there at the start and no save(n, _) has succeeded, or delete(n)
\* came after the last one) returns Ok(None), not an error and not a text;
\* and once delete(n) has returned, load(n) returns Ok(None), whatever was
\* saved in the slot before.
C17_LoadOfUnsavedIsNone ==
    /\ (Called("load") /\ slotOp.slot \in Slots /\ held[slotOp.slot] = None)
            => slotOp.result = Ok(None)
    /\ (Called("delete") /\ slotOp.slot \in Slots)
            => load_from_slot(store, slotOp.slot).result = Ok(None)

\* C18: delete(n), n in 1..=10, returns Ok whether or not the slot held an
\* item and leaves the key without one; a second delete(n) returns the same
\* and leaves the store as the first left it.
C18_DeleteIdempotent ==
    (Called("delete") /\ slotOp.slot \in Slots) =>
        /\ slotOp.result = Ok("unit")
        /\ storage_key(slotOp.slot) \notin DOMAIN store
        /\ delete_slot(store, slotOp.slot).result = slotOp.result
        /\ delete_slot(store, slotOp.slot).store = store

\* C18 witness: a delete of slot 1 when it held nothing.
C18_Witness ==
    /\ Called("delete")
    /\ slotOp.slot = 1
    /\ ~slotOp.was_present
    /\ slotOp.result = Ok("unit")

\* The item under the key of slot n is there and is no StorageSlot record.
Malformed(n) ==
    /\ storage_key(n) \in DOMAIN store
    /\ from_json(store[storage_key(n)]).tag = "Err"

\* C19 (as claimed): load of a slot whose item is malformed returns an error,
\* never Ok(None).
C19_MalformedIsError ==
    (Called("load") /\ slotOp.slot \in Slots /\ Malformed(slotOp.slot))
        => slotOp.result.tag = "Err"

\* Slot n holds a record.
Occupied(n) == LocalStorage_get(store, storage_key(n)).tag = "Ok"

RecordOf(n) == LocalStorage_get(store, storage_key(n)).val

\* C20 (as claimed): list returns a sequence with exactly one entry per
\* occupied slot of 1..=10 and none for another, in strictly ascending order
\* of slot number, each with the record's saved_at and its title, or the
\* placeholder when it has none.
C20_ListExact ==
    Called("list") =>
        /\ slotOp.result.tag = "Ok"
        /\ LET l == slotOp.result.val IN
           /\ \A n \in Slots :
                 Cardinality({i \in 1..Len(l) : l[i].slot_number = n})
                    = IF Occupied(n) THEN 1 ELSE 0
           /\ \A i \in 1..Len(l) : l[i].slot_number \in Slots
           /\ \A i, j \in 1..Len(l) : i < j => l[i].slot_number < l[j].slot_number
           /\ \A i \in 1..Len(l) :
                 /\ l[i].saved_at = RecordOf(l[i].slot_number).saved_at
                 /\ l[i].title =
                       IF RecordOf(l[i].slot_number).document.title = None
                       THEN TITLE_UNTITLED
                       ELSE RecordOf(l[i].slot_number).document.title.val

\* The first k characters of s, k <= CharCount(s).
RECURSIVE CharPrefix(_, _)
CharPrefix(s, k) ==
    IF k = 0 THEN <<>>
    ELSE IF Head(s).n <= k THEN <<Head(s)>> \o CharPrefix(Tail(s), k - Head(s).n)
    ELSE <<Run(Head(s).c, k)>>

\* C21 (as claimed): the preview of a content is its first 3 lines joined by
\* line feeds, cut to its first 100 characters and followed by "..." when it
\* has more than 100 characters, unchanged otherwise, whatever the characters.
C21_PreviewByChars ==
    (taxIn.f = "get_preview" /\ taxOut \notin {Pending, Idle}) =>
        LET joined == JoinLines(Take(str_lines(taxIn.arg), 3)) IN
        taxOut = Some(Ok(IF CharCount(joined) > 100
                         THEN Canon(CharPrefix(joined, 100) \o <<Run(CH_DOT, 3)>>)
                         ELSE joined))

\* C22 (as claimed): storage_error_to_result gives StorageReadError with level
\* Error for InvalidSlotNumber and SlotEmpty, StorageSlotLimit with level
\* Warning for SlotsFull, and StorageInputLimit with level Warning and a
\* maximum of 24000 for QuotaExceeded.
C22_StorageErrorTable ==
    (taxIn.f = "storage_error_to_result" /\ taxOut \notin {Pending, Idle}) =>
        /\ taxIn.arg.variant \in {"InvalidSlotNumber", "SlotEmpty"} =>
              /\ taxOut.val.code.type = "StorageReadError"
              /\ taxOut.val.level = Error
        /\ taxIn.arg.variant = "SlotsFull" =>
              /\ taxOut.val.code.type = "StorageSlotLimit"
              /\ taxOut.val.level = Warning
        /\ taxIn.arg.variant = "QuotaExceeded" =>
              /\ taxOut.val.code.type = "StorageInputLimit"
              /\ taxOut.val.level = Warning
              /\ taxOut.val.context = Some([maxChars |-> 24000])

\* Caller c clicks the save button in this step.
ClickOf(c) == callers[c].pc = "idle" /\ callers'[c].events # <<>>

SlotsFullEvent == OnError(SaveValidationError_StorageError([variant |-> "SlotsFull"]))

\* The key of slot n holds an item, one that parses as a record or not.
KeyHeld(n) == storage_key(n) \in DOMAIN store

\* C23 (as claimed): a click whose text reaches the scan for a free slot when
\* the keys of all 10 slots hold an item ends the attempt at once with the
\* result StorageSlotLimit, level Warning, and no item of the store written;
\* a click when the key of some slot of 1..=10 holds no item emits no
\* SlotsFull.
C23_FullStoreNoWrite ==
    [][\A c \in Callers :
          ClickOf(c) =>
              /\ ((\A n \in Slots : KeyHeld(n)) /\ callers'[c].reads > 0) =>
                    /\ callers'[c].pc = "done"
                    /\ callers'[c].writes = 0
                    /\ store' = store
                    /\ callers'[c].events = <<SlotsFullEvent>>
                    /\ callers'[c].result.val.code = [type |-> "StorageSlotLimit"]
                    /\ callers'[c].result.val.level = Warning
              /\ (\E n \in Slots : ~KeyHeld(n)) =>
                    \A i \in 1..Len(callers'[c].events) :
                        callers'[c].events[i] # SlotsFullEvent]_vars

\* The record the save of caller c writes under slot n.
RecordBy(c, n) ==
    [slot_number |-> n,
     document |-> [id |-> DocIdOf(c), content |-> callers[c].text,
                   created_at |-> callers[c].now, updated_at |-> callers[c].now,
                   title |-> None],
     saved_at |-> callers[c].saved_at]

\* C24: under every interleaving of the scans, saves and deletes of the
\* callers, the item under a slot's key is at every moment absent, the item
\* found at the start, or the whole record of one save that wrote that slot;
\* and it is the record of the save that wrote last, or absent when a delete
\* came last.
C24_WholeRecordLastWins ==
    \A n \in Slots :
        /\ storage_key(n) \in DOMAIN store =>
              \/ lastWrite[n] = None
                 /\ store[storage_key(n)] \in {RAW_GARBAGE, to_json(TitledSlot(n))}
              \/ \E c \in Callers :
                    /\ callers[c].slot = n
                    /\ callers[c].writes = 1
                    /\ store[storage_key(n)] = to_json(RecordBy(c, n))
        /\ (lastWrite[n] # None /\ lastWrite[n].val.op = "save") =>
              /\ storage_key(n) \in DOMAIN store
              /\ store[storage_key(n)] = to_json(RecordBy(lastWrite[n].val.by, n))
        /\ (lastWrite[n] # None /\ lastWrite[n].val.op = "delete") =>
              storage_key(n) \notin DOMAIN store

\* C24 witness: two callers scanned before either wrote, chose the same slot
\* and both saved; the slot holds the record of the one that wrote last.
C24_Witness ==
    \E c, d \in Callers :
        /\ c # d
        /\ callers[c].pc = "done" /\ callers[d].pc = "done"
        /\ callers[c].slot = 1 /\ callers[d].slot = 1
        /\ callers[c].writes = 1 /\ callers[d].writes = 1
        /\ callers[c].text # callers[d].text
        /\ callers[c].result.val.level = Info /\ callers[d].result.val.level = Info
        /\ lastWrite[1] = Some([op |-> "save", by |-> d])
        /\ store[storage_key(1)] = to_json(RecordBy(d, 1))

\* The slots that load as None.
LoadsAsNone == {n \in 1..10 : load_from_slot(store, n).result = Ok(None)}

\* C28: a click emits exactly one event: EmptyContent for a whitespace-only
\* text and ContentTooLarge(len) for a text of more than 24,000 characters,
\* with no slot loaded; otherwise on_save(n) for the smallest n of 1..=10 that
\* loads as None, and SlotsFull when no slot does.
C28_OneEventPerClick ==
    [][\A c \in Callers :
          ClickOf(c) =>
              LET text == callers'[c].text
                  fits == CharCount(text) <= 24000 IN
              /\ Len(callers'[c].events) = 1
              /\ AllWhitespace(text) =>
                    /\ callers'[c].events[1] = OnError([variant |-> "EmptyContent"])
                    /\ callers'[c].reads = 0
              /\ (~AllWhitespace(text) /\ ~fits) =>
                    /\ callers'[c].events[1].event = "on_error"
                    /\ callers'[c].events[1].error.variant = "ContentTooLarge"
                    /\ callers'[c].reads = 0
              /\ (~AllWhitespace(text) /\ fits /\ LoadsAsNone # {}) =>
                    /\ callers'[c].events[1].event = "on_save"
                    /\ callers'[c].events[1].slot \in LoadsAsNone
                    /\ \A n \in LoadsAsNone : callers'[c].events[1].slot <= n
              /\ (~AllWhitespace(text) /\ fits /\ LoadsAsNone = {}) =>
                    callers'[c].events[1] = SlotsFullEvent]_vars

\* The render call of request r returned an error.
RenderFailed(r) == reqs[r].render # None /\ reqs[r].render.val.tag = "Err"

\* C27: when the render call fails, the response's code is EncodingError
\* exactly when the failure is an encoding failure; every other failure is
\* answered with ParseError by convert and ExportError by export; the level is
\* Error and the response carries no image.
C27_FailureCodes ==
    \A r \in Requests :
        RenderFailed(r) =>
            LET e == reqs[r].render.val.err
                resp == reqs[r].response.val IN
            /\ (resp.result.code = [type |-> "EncodingError"]) <=> (e.variant = "EncodingError")
            /\ e.variant # "EncodingError" =>
                  resp.result.code = IF reqs[r].op = "convert" THEN [type |-> "ParseError"]
                                     ELSE [type |-> "ExportError"]
            /\ resp.result.level = Error
            /\ resp.image_data = None

\* C27 witness: an export whose send timed out was answered ExportError, level
\* Error, with no image.
C27_Witness ==
    \E r \in Requests :
        /\ RenderFailed(r)
        /\ reqs[r].op = "export"
        /\ reqs[r].reply = Some([kind |-> "send_error", cause |-> "timeout"])
        /\ reqs[r].render.val.err.variant = "Network"
        /\ reqs[r].response.val.result.code = [type |-> "ExportError"]
        /\ reqs[r].response.val.image_data = None

\* j is a code of the envelope: an object whose type names a variant and that
\* has the variant's fields, each of its type, and a line that is null or a
\* number that is not negative; or an array of the name of a variant and
\* exactly the variant's fields in their order, each of its type.
IsCode(j) ==
    \/ /\ j.json = "object"
       /\ "type" \in DOMAIN j.fields
       /\ j.fields.type.json = "string"
       /\ j.fields.type.value \in VariantNames
       /\ RequiredFields(j.fields.type.value) \subseteq DOMAIN j.fields
       /\ \A f \in RequiredFields(j.fields.type.value) : Reads(j.fields[f], FieldType(f))
       /\ (j.fields.type.value = "ParseError" /\ "line" \in DOMAIN j.fields) =>
             Reads(j.fields.line, "Option<usize>")
    \/ /\ j.json = "array"
       /\ Len(j.value) >= 1
       /\ j.value[1].json = "string"
       /\ j.value[1].value \in VariantNames
       /\ Len(j.value) = 1 + Len(VariantFields(j.value[1].value))
       /\ \A i \in 1..Len(VariantFields(j.value[1].value)) :
             Reads(j.value[i + 1], FieldType(VariantFields(j.value[1].value)[i]))

\* The value a JSON leaf stands for: None for null in the place of an Option,
\* Some of the value for another leaf there, the value itself elsewhere.
LeafValue(leaf, f) ==
    IF FieldType(f) # "Option<usize>" THEN leaf.value
    ELSE IF leaf.json = "null" THEN None
    ELSE Some(leaf.value)

\* code is the code j names: the same variant with the same fields.
SameCode(code, j) ==
    IF j.json = "object"
    THEN /\ code.type = j.fields.type.value
         /\ \A f \in RequiredFields(code.type) : code[f] = j.fields[f].value
         /\ code.type = "ParseError" =>
               code.line = IF "line" \in DOMAIN j.fields
                           THEN LeafValue(j.fields.line, "line") ELSE None
    ELSE /\ code.type = j.value[1].value
         /\ \A i \in 1..Len(VariantFields(code.type)) :
               code[VariantFields(code.type)[i]] =
                  LeafValue(j.value[i + 1], VariantFields(code.type)[i])

\* j is a level of the envelope: one of the three names as a string, or an
\* object whose one key is one of the names and whose value is null.
IsLevel(j) ==
    \/ j.json = "string" /\ j.value \in StatusLevel
    \/ /\ j.json = "object"
       /\ \E k \in StatusLevel : DOMAIN j.fields = {k} /\ j.fields[k] = JsonNull

LevelOf(j) == IF j.json = "string" THEN j.value ELSE CHOOSE k \in DOMAIN j.fields : TRUE

\* The parts of the body of a reply and of its result, by name: the keys of an
\* object or the elements of an array of the struct's length.
EnvelopeParts(reply) == StructFields(reply.body, <<"result", "image_data">>)

ResultParts(reply) == StructFields(EnvelopeParts(reply).val.result, <<"level", "code">>)

\* The reply carries an envelope: its body is an object or an array with a
\* result of a level and a code, and image data that is absent, null or an
\* array of bytes.
IsEnvelope(reply) ==
    /\ reply.kind = "response"
    /\ EnvelopeParts(reply).tag = "Ok"
    /\ "result" \in DOMAIN EnvelopeParts(reply).val
    /\ ResultParts(reply).tag = "Ok"
    /\ {"level", "code"} \subseteq DOMAIN ResultParts(reply).val
    /\ IsLevel(ResultParts(reply).val.level)
    /\ IsCode(ResultParts(reply).val.code)
    /\ "image_data" \in DOMAIN EnvelopeParts(reply).val =>
          LET image == EnvelopeParts(reply).val.image_data IN
          \/ image.json = "null"
          \/ /\ image.json = "array"
             /\ \A i \in 1..Len(image.value) :
                   image.value[i].json = "number" /\ image.value[i].value \in 0..255

HasImage(reply) ==
    /\ "image_data" \in DOMAIN EnvelopeParts(reply).val
    /\ EnvelopeParts(reply).val.image_data.json = "array"

\* The bytes the image data of the reply spells.
ImageOf(reply) ==
    LET image == EnvelopeParts(reply).val.image_data IN
    [i \in 1..Len(image.value) |-> image.value[i].value]

\* C26: convert_plantuml and export_plantuml return Ok(image bytes, result)
\* exactly for a 2xx reply whose body is an envelope with image data;
\* ProcessError with the envelope's code for a 2xx envelope without image
\* data; ServerError for every status outside 2xx; NetworkError when nothing
\* was received or the 2xx body is no envelope.
C26_ReplyClassified ==
    (taxIn.f \in {"convert_plantuml", "export_plantuml"} /\ taxOut \notin {Pending, Idle}) =>
        LET reply == taxIn.arg
            out == taxOut.val
            sent == reply.kind # "send_error"
            ok2xx == sent /\ IsSuccessStatus(reply.status)
        IN  /\ out.tag = "Ok" <=> (ok2xx /\ IsEnvelope(reply) /\ HasImage(reply))
            /\ out.tag = "Ok" =>
                  /\ out.val[1] = ImageOf(reply)
                  /\ SameCode(out.val[2].code, ResultParts(reply).val.code)
                  /\ out.val[2].level = LevelOf(ResultParts(reply).val.level)
            /\ (ok2xx /\ IsEnvelope(reply) /\ ~HasImage(reply)) =>
                  /\ out.tag = "Err" /\ out.err.variant = "ProcessError"
                  /\ SameCode(out.err.code, ResultParts(reply).val.code)
            /\ (sent /\ ~ok2xx) => (out.tag = "Err" /\ out.err.variant = "ServerError")
            /\ (~sent \/ (ok2xx /\ ~IsEnvelope(reply))) =>
                  (out.tag = "Err" /\ out.err.variant = "NetworkError")

\* C26 witness: an export answered 200 with an envelope of code ParseError and
\* null image data came out as ProcessError(ParseError).
C26_Witness ==
    /\ taxIn = Call("export_plantuml",
                    [kind |-> "response", status |-> 200, body |-> API_BODY_NULL_IMAGE])
    /\ taxOut = Some(Err(ApiError_ProcessError([type |-> "ParseError", line |-> Some(3)])))

\* The item under the key of slot m in store st, if any.
ItemOf(st, m) == IF storage_key(m) \in DOMAIN st THEN Some(st[storage_key(m)]) ELSE None

\* C29 (as claimed): save(n, text) and delete(n) leave the item of every slot
\* m # n as it was, load and list change no item, and a save that returns an
\* error leaves the item of slot n as it was.
C29_OwnKeyOnly ==
    [][slotOp' \notin {Pending, Idle} =>
          /\ slotOp'.op \in {"save", "delete"} =>
                \A m \in Slots \ {slotOp'.slot} : ItemOf(store', m) = ItemOf(store, m)
          /\ slotOp'.op \in {"load", "list"} => store' = store
          /\ (slotOp'.op = "save" /\ slotOp'.result.tag = "Err") => store' = store]_vars

\* Every conversion page p spawned has returned.
AllReturned(p) == \A k \in 1..Len(p.spawned) : p.spawned[k].shown # None

\* C30 (as claimed): at the moment the last of the conversions started by the
\* text changes of a tab returns, the image and the message on its page are
\* those produced for the text submitted last.
C30_LatestTextShown ==
    [][\A c \in Callers :
          (Len(ui[c].spawned) > 0 /\ ~AllReturned(ui[c]) /\ AllReturned(ui'[c])) =>
              LET last == ui'[c].spawned[Len(ui'[c].spawned)].shown.val IN
              /\ ui'[c].image_data = last.image_data
              /\ ui'[c].message = last.message
              /\ ui'[c].message_level = last.message_level]_vars

====
